---------------------------- MODULE Spec2Model ----------------------------
(***************************************************************************)
(* A model of o4 (salesforce/o4).                                          *)
(*                                                                         *)
(* Part G: gatling/gatling.py, distribute() and main(): the main thread   *)
(*         that fans stdin out to a pool of children, the children, and   *)
(*         the sink thread that collates the children's stdout/stderr.    *)
(* Part F: o4/o4_fstat.py, fstat_iter(): the merge of fstat server,       *)
(*         Perforce and local cache, and the publication of the new cache *)
(*         file.                                                          *)
(*                                                                         *)
(* Part S: o4/o4.py, o4_sync(): the steps of one sync of a workspace, its *)
(*         marker file .o4/changelist and its pipelines.                  *)
(* Part L: o4/o4.py, o4_fail(): the last command of a pipeline.           *)
(* Part T: o4/o4.py, the stages o4_filter, o4_drop_have, o4_pyforce and   *)
(*         o4_seed_from.                                                  *)
(*                                                                         *)
(* Each part has its own specification; the variables of the other parts  *)
(* are held at their idle values.                                          *)
(***************************************************************************)
EXTENDS Integers, Sequences, FiniteSets, TLC

(***************************************************************************)
(* Bounds of the model.                                                    *)
(***************************************************************************)
\* stdin.read calls that return data, per run of distribute
MaxChunks == 3
\* largest value of the -m option (max_bytes)
MaxBytes == 2
\* largest value of the -n option (max_procs)
MaxProcs == 2
\* stdin.read calls that return data in the specification with child output
MaxSinkChunks == 2
\* characters all children together may write to their stdout/stderr
MaxOut == 2
\* highest changelist of the depot
MaxCL == 3
\* calls of fstat_iter on one cache directory
MaxRuns == 2
\* 'Too many rows scanned' answers of Perforce that are counted in one call of
\* fstat_iter
MaxRowScans == 1
\* calls of o4_sync on one workspace
MaxSyncs == 2
\* lines on the stdin of o4 fail or of a stage
MaxLines == 2
\* characters of the path of a record
MaxPath == 3
\* processes that call lock_package on one depot path
MaxCallers == 2
\* calls of lock_package
MaxLockCalls == 3
\* moves of the clock
MaxTicks == 2
\* lock_package, line 76: 90 * 60
TIMEOUT == 5400
\* 'clobber writable file' answers of p4 in one run of o4 pyforce
MaxClobbers == 1
MaxFuncs == 2
MaxReplies == 2
\* highest changelist of a file in .o4 when the caches are pruned
MaxCacheCL == 5
\* prune_archive_cache, line 250: 60 * 60 * 24
DAY == 86400

(***************************************************************************)
(* Program constants.                                                      *)
(***************************************************************************)
\* Popen.kill() sends SIGKILL; wait() then reports -9
SIGKILL == 9

\* fstat_iter gives Perforce three attempts (o4_fstat.py 349)
RETRIES == 3

\* the values of the -c option (chunk_size): with 1 every chunk is a line end or
\* not, with 2 a chunk can also end inside a line
ChunkSizes == {1, 2}

NL == "\n"
Chars == {"x", NL}
Streams == {"stdout", "stderr"}
\* a Popen.returncode of None is <<>>, a code c is <<c>>
None == <<>>

VARIABLES
    \* ---- part G: arguments of distribute
    round_robin, max_procs, max_bytes, chunk_size,
    \* ---- part G: main thread
    gpc,          \* position of the main thread
    reads_left,   \* stdin.read calls that may still return data
    stdin_short,  \* the last read was short: stdin is at EOF
    b_in,         \* characters read from stdin so far
    chunk,        \* the chunk being handled (characters)
    buf,          \* positions (in stdin) of the kept remainder
    p,            \* the child selected for the chunk (0: none)
    p_open, p_filled, res,
    res_child,    \* history: the child whose code is res[k]
    recv,         \* history: the child that received the k-th chunk
    not_done, sel_t,
    exit_status,  \* exit status of main, None while running
    \* ---- part G: children, in spawn order
    p_n,          \* Popen._n
    p_stdin,      \* positions written to the child's stdin
    stdin_closed,
    os_status,    \* None while the process runs, <<code>> afterwards
    returncode,   \* Popen.returncode
    pipe,         \* characters written by the child and not yet read
    out_left,     \* characters the children may still write
    \* ---- part G: sink thread
    sink_pc, selector,
    fbuf,         \* fileobj._buf
    trg,          \* the stage's stdout and stderr: <<child, char>>
    \* ---- part F: the environment of fstat_iter
    depot,        \* depot[cl]: the paths changelist cl changed
    fstat_server, \* o4_config.fstat_server() is set
    tracing,      \* the history of yielded lines is kept
    cache_dir,    \* the <cl>.fstat.gz files of .o4: cl |-> lines
    \* ---- part F: one call of fstat_iter
    runs,         \* calls started so far
    fpc,          \* position of the generator
    exc,          \* what leaves the try block
    at_yield,     \* the generator is suspended at a yield
    to_changelist, from_changelist, cache_cl,
    missing_range, o4server_range,
    all_filenames, perforce_filenames, highest_written_cl,
    first_cl,     \* _first
    retry,
    rowscans,     \* 'Too many rows scanned' answers so far, counted up to MaxRowScans
    temp_exists,  \* the file named temp_fname exists
    fout_open,    \* fout is an open file
    fout,         \* the lines of the temp file
    lines,        \* what the iterator being read has left
    p4_left,      \* the records Perforce has not delivered yet
    yielded,      \* history: the lines yielded by this call, <<cl, path, source>>
    reported,     \* history: the records of the answers this call asked for
    timeouts,     \* history: the p4 fstat attempts of this call's retry loop that timed out
    \* ---- part S: the workspace
    changelist_file,  \* .o4/changelist: Absent, or the number in it
    incomplete_file,  \* .o4/sync-incomplete exists
    local,        \* local[path]: the changelist of the revision on disk, 0 without
    have,         \* have[path]: the same for the server's have list
    \* ---- part S: one call of o4_sync
    syncs,        \* calls started so far
    spc,          \* position of o4_sync
    s_exit,       \* how the call ended, "none" while it runs
    s_changelist, force, quick, seed,
    previous_cl, has_open, actual_cl,
    did,          \* history: what this call has done
    again,        \* history: the call before had these arguments and ended well
    \* ---- parts L and T: a command of o4 that reads fstat lines
    stdin,        \* the lines not read yet
    input,        \* history: the lines stdin held at the start
    ec,           \* the exit status, None while the command runs
    \* ---- part L: o4_fail
    lpc, files, n_files, infos, warnings, errors,
    \* ---- part T: a stage
    stage,        \* the command
    filtertype,   \* o4_filter: drop, keep or keep-any
    funcs,        \* o4_filter: the predicates given, <<fname, invert>>
    fs,           \* o4_filter: what the predicates find on disk and in p4
    verbose,      \* o4_filter: -v
    quiet,        \* o4_pyforce: -q
    tpc,          \* position of the stage
    stdout,       \* what the stage has written: <<line, origin>>
    have_list,    \* o4_drop_have: have, None or <<the paths listed>>
    fstats,       \* o4_pyforce: the records p4 has to deal with
    retries,      \* o4_pyforce: timeouts left
    clobbers,     \* o4_pyforce: P4Errors of 'clobber writable file' only so far
    p4_replies,   \* what p4 may answer in this run
    n_asked,      \* o4_pyforce: len(p4paths) of this p4 call
    queued_prints,
    errs,         \* o4_pyforce: len(errs)
    repeats,      \* o4_pyforce: the keys of repeats
    p4_errors,    \* Pyforce: self.errors
    p4_in,        \* history: the results p4 has sent in this call
    p4_reads,     \* how many results p4 has sent in this run of the stage
    p4_ret,       \* history: the results Pyforce has returned in this call
    p4_end,       \* history: what ended the iteration and what stderr held, <<>> before
    p4_timeouts,  \* history: the p4 calls of this run of the stage that timed out
    \* ---- part R: a record on its way from one command to the next
    r_f,          \* the record
    r_line,       \* fstat_join of it, None before
    r_res,        \* fstat_split of the line, None before
    \* ---- part K: the package lock of a depot path
    clock,        \* time.time()
    ticks,        \* how often the clock has moved
    packagelock,  \* .o4/packagelock: the number in it, 0 when empty
    lockf,        \* the caller that holds the lock on its first byte, 0 for none
    kpc,          \* kpc[c]: position of caller c
    kop,          \* kop[c]: the function caller c is in
    k_now,        \* k_now[c]: now
    k_buf,        \* k_buf[c]: what f.write has left in the buffer of f, 0 for nothing
    k_ret,        \* k_ret[c]: what the last lock_package returned, "none" without
    k_calls,      \* calls of lock_package so far
    holders,      \* history: <<c, now>> of the calls that returned True since the
                  \* last unlock_package
    \* ---- part O: the command o4 fstat
    o_args,       \* its arguments, None before it has run
    printed,      \* what it has printed: <<changelist, path, kind>>
    o_iters,      \* history: the fstat_iter generators it made and the next() calls on each
    o_end,        \* how it ended: return, exit (sys.exit) or exception, none before
    \* ---- part C: the caches of .o4 when they are pruned
    c_files,      \* the changelists cl of the <cl>.fstat.gz files
    c_fail,       \* the changelists whose file os.remove cannot remove
    c_ret,        \* what prune_fstat_cache returned, None before
    a_files,      \* the archives <cl>...__....tgz: <<age, cl>>
    a_fail,       \* the archives os.remove cannot remove
    a_ret         \* what prune_archive_cache returned, None before

gparams == <<round_robin, max_procs, max_bytes, chunk_size>>
gmain == <<gpc, reads_left, stdin_short, b_in, chunk, buf, p, p_open, p_filled,
           res, res_child, recv, not_done, sel_t, exit_status>>
gchildren == <<p_n, p_stdin, stdin_closed, os_status, returncode, pipe, out_left>>
gsink == <<sink_pc, selector, fbuf, trg>>
gvars == <<gparams, gmain, gchildren, gsink>>

fenv == <<depot, fstat_server, tracing>>
fargs == <<runs, to_changelist, from_changelist, cache_cl>>
fmerge == <<missing_range, o4server_range, all_filenames, perforce_filenames,
            highest_written_cl, first_cl, retry, rowscans>>
ffile == <<temp_exists, fout_open, fout>>
fstream == <<lines, p4_left>>
fhist == <<yielded, reported, timeouts>>
fvars == <<fenv, cache_dir, fpc, exc, at_yield, fargs, fmerge, ffile, fstream, fhist>>

\* part F without the cache directory
frest == <<fenv, fpc, exc, at_yield, fargs, fmerge, ffile, fstream, fhist>>

sfiles == <<changelist_file, incomplete_file>>
swork == <<local, have>>
sargs == <<s_changelist, force, quick, seed>>
shist == <<did, again>>
svars == <<sfiles, swork, sargs, syncs, spc, s_exit, previous_cl, has_open, actual_cl,
           shist>>

lvars == <<lpc, files, n_files, infos, warnings, errors>>
\* the options of a stage and what it finds around it
topts == <<stage, filtertype, funcs, verbose, quiet, fs, p4_replies>>
\* one p4 call of o4_pyforce
pmore == <<n_asked, queued_prints, errs, repeats, p4_errors, p4_in, p4_ret, p4_end,
          p4_reads, p4_timeouts>>
tvars == <<topts, tpc, stdout, have_list, fstats, retries, clobbers, pmore>>
qvars == <<stdin, input, ec, lvars, tvars>>
\* the parts that run o4's own commands
pvars == <<svars, qvars>>

rvars == <<r_f, r_line, r_res>>
\* the parts outside the commands above
kvars == <<clock, ticks, packagelock, lockf, kpc, kop, k_now, k_buf, k_ret, k_calls,
           holders>>
ovars == <<o_args, printed, o_iters, o_end>>
cvars == <<c_files, c_fail, c_ret, a_files, a_fail, a_ret>>
xvars == <<rvars, kvars, ovars, cvars>>

vars == <<gvars, fvars, pvars, xvars>>

(***************************************************************************)
(* Helpers.                                                                *)
(***************************************************************************)
Range(s) == {s[k] : k \in 1..Len(s)}

RECURSIVE SeqsUpTo(_, _)
SeqsUpTo(S, n) ==
    IF n = 0 THEN {<<>>}
    ELSE LET shorter == SeqsUpTo(S, n - 1)
         IN  shorter \cup {Append(s, x) : s \in {t \in shorter : Len(t) = n - 1}, x \in S}

\* chunk.rfind('\n') + 1
RfindNL(s) ==
    IF \E k \in 1..Len(s) : s[k] = NL
    THEN CHOOSE k \in 1..Len(s) : s[k] = NL /\ \A j \in (k + 1)..Len(s) : s[j] # NL
    ELSE 0

\* the stdin positions from+1 .. from+n
Positions(from, n) == [k \in 1..n |-> from + k]

\* list.remove for a set of elements, order kept
RECURSIVE Without(_, _)
Without(s, D) ==
    IF s = <<>> THEN <<>>
    ELSE IF Head(s) \in D THEN Without(Tail(s), D)
         ELSE <<Head(s)>> \o Without(Tail(s), D)

Spawned == 1..Len(os_status)
NoPipes == [s \in Streams |-> <<>>]


(***************************************************************************)
(* Part G: distribute, the main thread (gatling.py 145-245).               *)
(***************************************************************************)
\* lines 165-170: the chunk goes to the head of p_open instead of a new child
MustReuse ==
    IF round_robin
    THEN Len(p_open) + Len(p_filled) = max_procs
    ELSE p_open # <<>>

\* line 193: the child has had its maximum input supplied
Filled(n) == n >= max_bytes

\* mutant of PoolFull: the comparison is off by one
PoolFull_OffByOne(filled) == Len(filled) > max_procs

\* line 207: the main thread blocks until a filled child has exited
PoolFull(filled) == Len(filled) = max_procs

\* mutant of PopOpen: p_open.pop() takes the child appended last
PopOpen_Last == p_open[Len(p_open)]

\* line 167/170: p_open.pop(0)
PopOpen == Head(p_open)

\* line 285: the nonzero codes
Errs(r) == {k \in 1..Len(r) : r[k] # 0}

\* lines 177-188: Popen, registration of both pipes, start of the sink thread
Spawn ==
    /\ p' = Len(os_status) + 1
    /\ p_n' = Append(p_n, 0)
    /\ p_stdin' = Append(p_stdin, <<>>)
    /\ stdin_closed' = Append(stdin_closed, FALSE)
    /\ os_status' = Append(os_status, None)
    /\ returncode' = Append(returncode, None)
    /\ pipe' = Append(pipe, NoPipes)
    /\ fbuf' = Append(fbuf, NoPipes)
    /\ selector' = selector \cup {<<Len(os_status) + 1, s>> : s \in Streams}
    /\ sel_t' = TRUE
    /\ sink_pc' = IF sel_t THEN sink_pc ELSE "select"

\* line 160: stdin.read(chunk_size) returns chunk_size characters, or fewer
\* when stdin ends
StdinRead(c) ==
    /\ gpc = "read"
    /\ ~stdin_short
    /\ reads_left > 0
    /\ Len(c) \in 1..chunk_size
    /\ reads_left' = reads_left - 1
    /\ stdin_short' = (Len(c) < chunk_size)
    /\ b_in' = b_in + Len(c)

\* lines 160-163, 223-224: a chunk without newline is kept
ReadNoNewline(c) ==
    /\ StdinRead(c)
    /\ RfindNL(c) = 0
    /\ buf' = buf \o Positions(b_in, Len(c))
    /\ UNCHANGED <<gparams, gpc, chunk, p, p_open, p_filled, res, res_child, recv,
                   not_done, sel_t, exit_status, gchildren, gsink>>
    /\ UNCHANGED <<fvars, pvars, xvars>>

\* lines 160-170: a chunk with a newline goes to the head of p_open
ReadReuse(c) ==
    /\ StdinRead(c)
    /\ RfindNL(c) > 0
    /\ MustReuse
    /\ p_open # <<>>
    /\ p' = PopOpen
    /\ p_open' = Without(p_open, {PopOpen})
    /\ chunk' = c
    /\ gpc' = "write"
    /\ UNCHANGED <<gparams, buf, p_filled, res, res_child, recv, not_done, sel_t,
                   exit_status, gchildren, gsink>>
    /\ UNCHANGED <<fvars, pvars, xvars>>

\* lines 160-188: a chunk with a newline starts a new child
ReadSpawn(c) ==
    /\ StdinRead(c)
    /\ RfindNL(c) > 0
    /\ ~MustReuse
    /\ Spawn
    /\ chunk' = c
    /\ gpc' = "write"
    /\ UNCHANGED <<gparams, buf, p_open, p_filled, res, res_child, recv, not_done,
                   exit_status, out_left, trg>>
    /\ UNCHANGED <<fvars, pvars, xvars>>

\* lines 190-192: what the child is given for the chunk
ChunkData == buf \o Positions(b_in - Len(chunk), RfindNL(chunk))

\* lines 190-199, 221-222: write the chunk, close a filled child
WriteChunk ==
    /\ gpc = "write"
    /\ LET n == p_n[p] + Len(ChunkData)
       IN  /\ p_stdin' = [p_stdin EXCEPT ![p] = @ \o ChunkData]
           /\ p_n' = [p_n EXCEPT ![p] = n]
           /\ buf' = Positions(b_in - Len(chunk) + RfindNL(chunk),
                               Len(chunk) - RfindNL(chunk))
           /\ IF Filled(n)
              THEN /\ stdin_closed' = [stdin_closed EXCEPT ![p] = TRUE]
                   /\ p_filled' = Append(p_filled, p)
                   /\ p_open' = p_open
                   /\ gpc' = IF PoolFull(p_filled') THEN "reap" ELSE "read"
              ELSE /\ p_open' = Append(p_open, p)
                   /\ UNCHANGED <<stdin_closed, p_filled>>
                   /\ gpc' = "read"
    /\ recv' = Append(recv, p)
    /\ chunk' = <<>>
    /\ UNCHANGED <<gparams, reads_left, stdin_short, b_in, p, res, res_child, not_done,
                   sel_t, exit_status, os_status, returncode, pipe, out_left, gsink>>
    /\ UNCHANGED <<fvars, pvars, xvars>>

\* mutant of ReapedCodes: the code of a child removed from p_filled is dropped
ReapedCodes_Dropped(order) == <<>>

\* line 218: the codes appended to res for the children found exited
ReapedCodes(order) == [k \in 1..Len(order) |-> os_status[order[k]][1]]

\* lines 207-220: poll the filled children until one has exited
Reap ==
    /\ gpc = "reap"
    /\ LET done == {d \in Range(p_filled) : os_status[d] # None}
           order == SelectSeq(p_filled, LAMBDA d : d \in done)
       IN  /\ done # {}
           /\ returncode' = [d \in DOMAIN returncode |->
                               IF d \in done THEN os_status[d] ELSE returncode[d]]
           /\ p_filled' = Without(p_filled, done)
           /\ res' = res \o ReapedCodes(order)
           /\ res_child' = res_child \o order
    /\ gpc' = IF PoolFull(p_filled') THEN "reap" ELSE "read"
    /\ UNCHANGED <<gparams, reads_left, stdin_short, b_in, chunk, buf, p, p_open, recv,
                   not_done, sel_t, exit_status, p_n, p_stdin, stdin_closed, os_status,
                   pipe, out_left, gsink>>
    /\ UNCHANGED <<fvars, pvars, xvars>>

\* lines 225-229: the children the closing loop appends to p_filled
Flushed == p_open

\* line 226-227: the kept remainder goes to the first open child
FlushTarget == IF p_open = <<>> THEN {} ELSE {Head(p_open)}

\* lines 160, 225-229: stdin is exhausted; the remainder is written to the first
\* open child and all open children are closed
ReadEOF ==
    /\ gpc = "read"
    /\ p_stdin' = [d \in DOMAIN p_stdin |->
                     IF d \in FlushTarget THEN p_stdin[d] \o buf ELSE p_stdin[d]]
    /\ buf' = IF p_open = <<>> THEN buf ELSE <<>>
    /\ stdin_closed' = [d \in DOMAIN stdin_closed |->
                          stdin_closed[d] \/ d \in Range(p_open)]
    /\ p_filled' = p_filled \o Flushed
    /\ gpc' = "wait"
    /\ UNCHANGED <<gparams, reads_left, stdin_short, b_in, chunk, p, p_open, res,
                   res_child, recv, not_done, sel_t, exit_status, p_n, os_status,
                   returncode, pipe, out_left, gsink>>
    /\ UNCHANGED <<fvars, pvars, xvars>>

\* lines 238-239: wait for the filled children in order
Wait ==
    /\ gpc = "wait"
    /\ p_filled # <<>>
    /\ os_status[Head(p_filled)] # None
    /\ returncode' = [returncode EXCEPT ![Head(p_filled)] = os_status[Head(p_filled)]]
    /\ res' = Append(res, os_status[Head(p_filled)][1])
    /\ res_child' = Append(res_child, Head(p_filled))
    /\ p_filled' = Tail(p_filled)
    /\ UNCHANGED <<gparams, gpc, reads_left, stdin_short, b_in, chunk, buf, p, p_open,
                   recv, not_done, sel_t, exit_status, p_n, p_stdin, stdin_closed,
                   os_status, pipe, out_left, gsink>>
    /\ UNCHANGED <<fvars, pvars, xvars>>

\* lines 238, 241-242: all children reaped; tell the sink thread to finish
Finish ==
    /\ gpc = "wait"
    /\ p_filled = <<>>
    /\ IF sel_t
       THEN /\ not_done' = SubSeq(not_done, 1, Len(not_done) - 1)
            /\ gpc' = "join"
       ELSE /\ not_done' = not_done
            /\ gpc' = "done"
    /\ UNCHANGED <<gparams, reads_left, stdin_short, b_in, chunk, buf, p, p_open,
                   p_filled, res, res_child, recv, sel_t, exit_status, gchildren, gsink>>
    /\ UNCHANGED <<fvars, pvars, xvars>>

\* lines 243-245: sel_t.join(), selector.close(), return res
Join ==
    /\ gpc = "join"
    /\ sink_pc = "stopped"
    /\ gpc' = "done"
    /\ UNCHANGED <<gparams, reads_left, stdin_short, b_in, chunk, buf, p, p_open,
                   p_filled, res, res_child, recv, not_done, sel_t, exit_status,
                   gchildren, gsink>>
    /\ UNCHANGED <<fvars, pvars, xvars>>

\* lines 232-236: the children the handler kills
KillList == Range(p_open) \cup Range(p_filled)

\* lines 230-237: KeyboardInterrupt or SystemExit inside the try block
Interrupt ==
    /\ gpc \in {"read", "write", "reap"}
    /\ not_done' = SubSeq(not_done, 1, Len(not_done) - 1)
    /\ stdin_closed' = [d \in DOMAIN stdin_closed |->
                          stdin_closed[d] \/ d \in Range(p_open)]
    /\ os_status' = [d \in DOMAIN os_status |->
                       IF d \in KillList /\ os_status[d] = None
                       THEN <<0 - SIGKILL>> ELSE os_status[d]]
    /\ gpc' = "raised"
    /\ UNCHANGED <<gparams, reads_left, stdin_short, b_in, chunk, buf, p, p_open,
                   p_filled, res, res_child, recv, sel_t, exit_status, p_n, p_stdin,
                   returncode, pipe, out_left, gsink>>
    /\ UNCHANGED <<fvars, pvars, xvars>>

\* lines 238-239: an interrupt while waiting for the filled children is outside
\* the try block and propagates as it is (in join() no child is left to reap)
InterruptLate ==
    /\ gpc = "wait"
    /\ gpc' = "propagated"
    /\ UNCHANGED <<gparams, reads_left, stdin_short, b_in, chunk, buf, p, p_open,
                   p_filled, res, res_child, recv, not_done, sel_t, exit_status,
                   gchildren, gsink>>
    /\ UNCHANGED <<fvars, pvars, xvars>>

\* lines 283-289: after a normal return main exits with an error iff a code is
\* nonzero (sys.exit with a message is exit status 1)
MainExit ==
    /\ gpc = "done"
    /\ exit_status' = IF Errs(res) # {} THEN <<1>> ELSE <<0>>
    /\ gpc' = "exit"
    /\ UNCHANGED <<gparams, reads_left, stdin_short, b_in, chunk, buf, p, p_open,
                   p_filled, res, res_child, recv, not_done, sel_t, gchildren, gsink>>
    /\ UNCHANGED <<fvars, pvars, xvars>>

(***************************************************************************)
(* Part G: the children.  A child is a filter: it may write to its stdout *)
(* and stderr while it runs, and it exits once its stdin has been closed. *)
(* distribute learns of an exit only through poll() (line 208) and wait() *)
(* (line 239), so an exit is scheduled when the main thread is at one of  *)
(* them and looks at that child.                                           *)
(***************************************************************************)
ExitCodes == {0, 1}

Watched ==
    IF gpc = "reap" THEN Range(p_filled)
    ELSE IF gpc = "wait" /\ p_filled # <<>> THEN {Head(p_filled)}
    ELSE {}

ChildExit(c, code) ==
    /\ c \in Watched
    /\ os_status[c] = None
    /\ stdin_closed[c]
    /\ os_status' = [os_status EXCEPT ![c] = <<code>>]
    /\ UNCHANGED <<gparams, gmain, p_n, p_stdin, stdin_closed, returncode, pipe,
                   out_left, gsink>>
    /\ UNCHANGED <<fvars, pvars, xvars>>

ChildOutput(c, s, ch) ==
    /\ gpc \notin {"raised", "propagated", "exit"}
    /\ os_status[c] = None
    /\ out_left > 0
    /\ out_left' = out_left - 1
    /\ pipe' = [pipe EXCEPT ![c][s] = Append(@, ch)]
    /\ UNCHANGED <<gparams, gmain, p_n, p_stdin, stdin_closed, os_status, returncode,
                   gsink>>
    /\ UNCHANGED <<fvars, pvars, xvars>>

(***************************************************************************)
(* Part G: the sink thread (gatling.py 124-141).  One ready file object   *)
(* is handled per step; the loop condition of line 126 is evaluated right *)
(* after it, and a thread that passed it sits in selector.select().       *)
(***************************************************************************)
Tag(c, s) == [k \in 1..Len(s) |-> <<c, s[k]>>]

\* line 126: the condition of the sink's loop
SinkGoesOn(nd, sel) == Len(nd) > 1 \/ sel # {}

\* lines 132-133: what a chunk with a newline puts on the target
SinkLine(c, s, ch) == Tag(c, fbuf[c][s]) \o Tag(c, SubSeq(ch, 1, RfindNL(ch)))

\* line 139: what the end of a child's stream puts on the target
SinkRest(c, s) == Tag(c, fbuf[c][s])

\* lines 128-136: a chunk was read from the child's pipe
SinkData(c, s) ==
    /\ gpc \notin {"raised", "propagated", "exit"}
    /\ sink_pc = "select"
    /\ <<c, s>> \in selector
    /\ pipe[c][s] # <<>>
    /\ LET ch == pipe[c][s]
       IN  IF RfindNL(ch) > 0
           THEN /\ trg' = [trg EXCEPT ![s] = @ \o SinkLine(c, s, ch)]
                /\ fbuf' = [fbuf EXCEPT ![c][s] = SubSeq(ch, RfindNL(ch) + 1, Len(ch))]
           ELSE /\ trg' = trg
                /\ fbuf' = [fbuf EXCEPT ![c][s] = @ \o ch]
    /\ pipe' = [pipe EXCEPT ![c][s] = <<>>]
    /\ UNCHANGED <<gparams, gmain, p_n, p_stdin, stdin_closed, os_status, returncode,
                   out_left, sink_pc, selector>>
    /\ UNCHANGED <<fvars, pvars, xvars>>

\* lines 137-140: end of file on the pipe of a child whose code is known
SinkEOF(c, s) ==
    /\ gpc \notin {"raised", "propagated", "exit"}
    /\ sink_pc = "select"
    /\ <<c, s>> \in selector
    /\ pipe[c][s] = <<>>
    /\ os_status[c] # None
    /\ returncode[c] # None
    /\ trg' = [trg EXCEPT ![s] = @ \o SinkRest(c, s)]
    /\ selector' = selector \ {<<c, s>>}
    /\ sink_pc' = IF SinkGoesOn(not_done, selector') THEN "select" ELSE "stopped"
    /\ UNCHANGED <<gparams, gmain, gchildren, fbuf>>
    /\ UNCHANGED <<fvars, pvars, xvars>>

(***************************************************************************)
(* Part F: fstat_iter (o4_fstat.py 265-448) and what it reads from.        *)
(* An fstat line is the pair <<changelist, path>>; the other columns play  *)
(* no part in the merge.  None in a range is 0: the code only tests the    *)
(* ends of a range for truth (lines 348, 404, 499).                        *)
(***************************************************************************)
Paths == {"a", "b"}
\* the order of the path strings
PathRank(path) == IF path = "a" THEN 1 ELSE 2
CLs == 1..MaxCL
\* the "# COLUMNS" line (line 302): fstat_cl gives it changelist 0
HEADER == <<0, "#">>

Max(S) == CHOOSE x \in S : \A y \in S : y <= x
Larger(x, y) == IF x >= y THEN x ELSE y

\* headChange of a path among its revisions in lower..upper, 0 without one
HeadChange(path, lower, upper) ==
    LET revs == {c \in CLs : lower <= c /\ c <= upper /\ path \in depot[c]}
    IN  IF revs = {} THEN 0 ELSE Max(revs)

\* p4 fstat depot@lower,@upper: one record for every path with a revision
Revisions(lower, upper) ==
    {<<HeadChange(q, lower, upper), q>> : q \in {x \in Paths : HeadChange(x, lower, upper) # 0}}

\* lines 501-503: the assert of fstat_from_perforce
RangeAsserted(upper, lower) == lower > 1 => lower <= upper

\* lines 499-504: a range only when lower > 1
fstat_from_perforce(upper, lower) ==
    IF lower > 1 THEN Revisions(lower, upper) ELSE Revisions(1, upper)

\* the order of sorted(rows, reverse=True) on [changelist, path, ...]
Before(r, s) == r[1] > s[1] \/ (r[1] = s[1] /\ PathRank(r[2]) > PathRank(s[2]))

\* sorted(rows) without reverse=True
RECURSIVE SortedForward(_)
SortedForward(S) ==
    IF S = {} THEN <<>>
    ELSE LET top == CHOOSE r \in S : \A s \in S \ {r} : Before(r, s)
         IN  SortedForward(S \ {top}) \o <<top>>

RECURSIVE SortedReverse(_)
SortedReverse(S) ==
    IF S = {} THEN <<>>
    ELSE LET top == CHOOSE r \in S : \A s \in S \ {r} : Before(r, s)
         IN  <<top>> \o SortedReverse(S \ {top})

\* the fstat server keeps <cl>.fstat.gz files made by fstat_iter itself
\* (o4package.get_fstat): it has one for every changelist that changed the depot
ServerHas(cl) == cl \in CLs /\ depot[cl] # {}
ServerFile(cl) == <<HEADER>> \o SortedReverse(Revisions(1, cl))

\* lines 537-542: comment lines are skipped, the first line below lower ends it
RECURSIVE ServerLines(_, _)
ServerLines(file, lower) ==
    IF file = <<>> THEN <<>>
    ELSE IF Head(file)[1] = 0 THEN ServerLines(Tail(file), lower)
    ELSE IF Head(file)[1] < lower THEN <<>>
    ELSE <<Head(file)>> \o ServerLines(Tail(file), lower)

fstat_from_server(upper, lower) == ServerLines(ServerFile(upper), lower)

\* lines 193-200: the nearest cache file not above changelist, 0 without one
get_fstat_cache(changelist) ==
    LET cls == {c \in DOMAIN cache_dir : c <= changelist}
        Dist(c) == IF c <= changelist THEN changelist - c ELSE c - changelist
    IN  IF cls = {} THEN 0
        ELSE CHOOSE c \in cls :
                \A d \in cls : Dist(c) < Dist(d) \/ (Dist(c) = Dist(d) /\ c <= d)

\* yield line (lines 311, 330, 356, 416, 430), as the history keeps it
Yield(line) == IF tracing THEN yielded \cup {<<line[1], line[2], fpc>>} ELSE yielded

\* from_changelist < cl <= to_changelist (lines 329, 355, 415, 429)
InRange(cl) == from_changelist < cl /\ cl <= to_changelist

\* path not in all_filenames (lines 354, 412, 427)
Seen_Never(path) == FALSE
Seen(path) == path \in all_filenames

\* os.unlink(temp_fname) (line 446): whether the file exists afterwards
Unlink_Skipped(exists) == exists
Unlink(exists) == FALSE

\* os.rename(temp_fname, f'{cache_dir}/{highest_written_cl}.fstat.gz')
Renamed(dir, cl, content) ==
    [c \in DOMAIN dir \cup {cl} |-> IF c = cl THEN content ELSE dir[c]]

\* the values the locals have outside a call
NoCall ==
    /\ at_yield = FALSE
    /\ to_changelist = 0
    /\ from_changelist = 0
    /\ cache_cl = 0
    /\ missing_range = <<0, 0>>
    /\ o4server_range = <<0, 0>>
    /\ all_filenames = {}
    /\ perforce_filenames = {}
    /\ highest_written_cl = 0
    /\ first_cl = 0
    /\ retry = 0
    /\ rowscans = 0
    /\ temp_exists = FALSE
    /\ fout_open = FALSE
    /\ fout = <<>>
    /\ lines = <<>>
    /\ p4_left = {}
    /\ yielded = {}
    /\ reported = {}
    /\ timeouts = 0

\* lines 441-448, the finally clause, entered with a return, an exception, a
\* sys.exit or a GeneratorExit, or at the end of the try block; the call is
\* over, its locals are gone, and exc keeps how it ended
Finally(how) ==
    /\ fout_open' = FALSE
    /\ temp_exists' = Unlink(temp_exists)
    /\ fpc' = "idle"
    /\ exc' = how
    /\ at_yield' = FALSE
    /\ to_changelist' = 0
    /\ from_changelist' = 0
    /\ cache_cl' = 0
    /\ missing_range' = <<0, 0>>
    /\ o4server_range' = <<0, 0>>
    /\ all_filenames' = {}
    /\ perforce_filenames' = {}
    /\ highest_written_cl' = 0
    /\ first_cl' = 0
    /\ retry' = 0
    /\ rowscans' = 0
    /\ fout' = <<>>
    /\ lines' = <<>>
    /\ p4_left' = {}
    /\ yielded' = {}
    /\ reported' = {}
    /\ timeouts' = 0
    /\ UNCHANGED <<fenv, runs, gvars, pvars, xvars>>

\* lines 287-302 and the tests of lines 304 and 317
Start(to, from) ==
    /\ fpc = "idle"
    /\ runs < MaxRuns
    /\ runs' = runs + 1
    /\ to_changelist' = to
    /\ from_changelist' = from
    /\ cache_cl' = get_fstat_cache(to)
    /\ temp_exists' = TRUE
    /\ fout_open' = TRUE
    /\ fout' = <<HEADER>>
    /\ IF cache_cl' = to
       THEN /\ fpc' = "direct"
            /\ lines' = cache_dir[to]
            /\ UNCHANGED missing_range
       ELSE /\ fpc' = IF fstat_server THEN "request" ELSE "perforce"
            /\ lines' = <<>>
            /\ missing_range' = <<to, cache_cl' + 1>>
    /\ exc' = "none"
    /\ UNCHANGED <<fenv, cache_dir, at_yield, o4server_range, all_filenames,
                   perforce_filenames, highest_written_cl, first_cl, retry, rowscans,
                   p4_left, fhist, gvars, pvars, xvars>>

\* lines 306-311: one line of the cache file that is exactly to_changelist
DirectLine ==
    /\ fpc = "direct"
    /\ lines # <<>>
    /\ Head(lines)[1] = 0 \/ Head(lines)[1] >= from_changelist
    /\ lines' = Tail(lines)
    /\ IF Head(lines)[1] = 0
       THEN at_yield' = FALSE /\ UNCHANGED yielded
       ELSE at_yield' = TRUE /\ yielded' = Yield(Head(lines))
    /\ UNCHANGED <<fenv, cache_dir, fpc, exc, fargs, fmerge, ffile, p4_left, reported, timeouts,
                   gvars, pvars, xvars>>

\* lines 309-312: the break, or the end of the file, and the return
DirectReturn ==
    /\ fpc = "direct"
    /\ IF lines = <<>> THEN TRUE
       ELSE Head(lines)[1] # 0 /\ Head(lines)[1] < from_changelist
    /\ Finally("return")
    /\ UNCHANGED cache_dir

\* lines 320-321 with status 200: the server has the file of missing_range[0]
Server1OK ==
    /\ fpc = "request"
    /\ ServerHas(missing_range[1])
    /\ lines' = fstat_from_server(missing_range[1], missing_range[2])
    /\ reported' = reported \cup Range(lines')
    /\ fpc' = "server1"
    /\ UNCHANGED <<fenv, cache_dir, exc, at_yield, fargs, fmerge, ffile, p4_left, yielded,
                   timeouts, gvars, pvars, xvars>>

\* lines 333-341: status 3xx, the server names the file of a changelist
\* (o4server.py 111-114: a file it has, o4package.py 152-164); fstat_iter
\* takes whatever changelist the Location header names (lines 529-532)
Server1Redirect(e_cl) ==
    /\ fpc = "request"
    /\ ServerHas(e_cl)
    /\ IF e_cl > to_changelist
       THEN UNCHANGED <<missing_range, o4server_range>>
       ELSE IF e_cl > cache_cl
       THEN /\ missing_range' = <<to_changelist, e_cl + 1>>
            /\ o4server_range' = <<e_cl, cache_cl + 1>>
       ELSE UNCHANGED <<missing_range, o4server_range>>
    /\ fpc' = "perforce"
    /\ UNCHANGED <<fenv, cache_dir, exc, at_yield, fargs, all_filenames,
                   perforce_filenames, highest_written_cl, first_cl, retry, rowscans,
                   ffile, fstream, fhist, gvars, pvars, xvars>>

\* lines 342-343: any other status but 404
Server1Error ==
    /\ fpc = "request"
    /\ fpc' = "perforce"
    /\ UNCHANGED <<fenv, cache_dir, exc, at_yield, fargs, fmerge, ffile, fstream, fhist,
                   gvars, pvars, xvars>>

\* lines 322-330: one line of the server's answer
Server1Line ==
    /\ fpc = "server1"
    /\ lines # <<>>
    /\ LET cl == Head(lines)[1]
           path == Head(lines)[2]
       IN  /\ first_cl' = IF first_cl # 0 THEN first_cl ELSE cl
           /\ all_filenames' = all_filenames \cup {path}
           /\ fout' = Append(fout, Head(lines))
           /\ IF InRange(cl)
              THEN at_yield' = TRUE /\ yielded' = Yield(Head(lines))
              ELSE at_yield' = FALSE /\ UNCHANGED yielded
    /\ lines' = Tail(lines)
    /\ UNCHANGED <<fenv, cache_dir, fpc, exc, fargs, missing_range, o4server_range,
                   perforce_filenames, highest_written_cl, retry, rowscans, temp_exists,
                   fout_open, p4_left, reported, timeouts, gvars, pvars, xvars>>

\* lines 331-332: the answer is exhausted
Server1End ==
    /\ fpc = "server1"
    /\ lines = <<>>
    /\ missing_range' = <<0, 0>>
    /\ fpc' = "perforce"
    /\ at_yield' = FALSE
    /\ UNCHANGED <<fenv, cache_dir, exc, fargs, o4server_range, all_filenames,
                   perforce_filenames, highest_written_cl, first_cl, retry, rowscans,
                   ffile, fstream, fhist, gvars, pvars, xvars>>

\* lines 345-349
PerforceBegin ==
    /\ fpc = "perforce"
    /\ highest_written_cl' = Larger(highest_written_cl, first_cl)
    /\ perforce_filenames' = {}
    /\ IF missing_range[1] # 0
       THEN retry' = RETRIES /\ fpc' = "retry"
       ELSE UNCHANGED retry /\ fpc' = "rows"
    /\ UNCHANGED <<fenv, cache_dir, exc, at_yield, fargs, missing_range, o4server_range,
                   all_filenames, first_cl, rowscans, ffile, fstream, fhist, gvars, pvars, xvars>>

\* lines 350-353: an attempt is left, Perforce is asked; the AssertionError
\* of fstat_from_perforce is no P4Error and leaves the try block
P4Attempt ==
    /\ fpc = "retry"
    /\ retry # 0
    /\ IF RangeAsserted(missing_range[1], missing_range[2])
       THEN /\ retry' = retry - 1
            /\ p4_left' = fstat_from_perforce(missing_range[1], missing_range[2])
            /\ reported' = reported \cup p4_left'
            /\ fpc' = "p4"
            /\ UNCHANGED <<fenv, exc, at_yield, fargs, missing_range, o4server_range,
                           all_filenames, perforce_filenames, highest_written_cl,
                           first_cl, rowscans, ffile, lines, yielded, timeouts, gvars, pvars,
                           xvars>>
       ELSE Finally("exception")
    /\ UNCHANGED cache_dir

\* lines 389-392: no attempt is left, sys.exit
P4GiveUp ==
    /\ fpc = "retry"
    /\ retry = 0
    /\ Finally("exit")
    /\ UNCHANGED cache_dir

\* lines 353-358: one record, in whatever order Perforce delivers
P4Record(f) ==
    /\ fpc = "p4"
    /\ f \in p4_left
    /\ p4_left' = p4_left \ {f}
    /\ IF ~Seen(f[2])
       THEN /\ perforce_filenames' = {g \in perforce_filenames : g[2] # f[2]} \cup {f}
            /\ IF InRange(f[1])
               THEN at_yield' = TRUE /\ yielded' = Yield(f)
               ELSE at_yield' = FALSE /\ UNCHANGED yielded
       ELSE at_yield' = FALSE /\ UNCHANGED <<perforce_filenames, yielded>>
    /\ UNCHANGED <<fenv, cache_dir, fpc, exc, fargs, missing_range, o4server_range,
                   all_filenames, highest_written_cl, first_cl, retry, rowscans, ffile,
                   lines, reported, timeouts, gvars, pvars, xvars>>

\* the while loop is left: retry is not read again and is forgotten, and so
\* are the counts of the loop's timeouts and 'Too many rows scanned' answers
LoopLeft ==
    /\ fpc' = "rows"
    /\ retry' = 0
    /\ timeouts' = 0
    /\ rowscans' = 0
    /\ at_yield' = FALSE
    /\ UNCHANGED <<fenv, cache_dir, exc, fargs, missing_range, o4server_range,
                   all_filenames, perforce_filenames, highest_written_cl, first_cl,
                   ffile, fstream, yielded, reported, gvars, pvars, xvars>>

\* line 359: every record was delivered
P4Break ==
    /\ fpc = "p4"
    /\ p4_left = {}
    /\ LoopLeft

\* lines 386-388: P4TimeoutError, raised in the middle of the records
P4Timeout ==
    /\ fpc = "p4"
    /\ perforce_filenames' = {}
    /\ p4_left' = {}
    /\ fpc' = "retry"
    /\ at_yield' = FALSE
    /\ timeouts' = timeouts + 1
    /\ UNCHANGED <<fenv, cache_dir, exc, fargs, missing_range, o4server_range,
                   all_filenames, highest_written_cl, first_cl, retry, rowscans, ffile,
                   lines, yielded, reported, gvars, pvars, xvars>>

\* line 370: missing_range = (to_changelist, None)
WholeRange_Kept(to) == missing_range
WholeRange(to) == <<to, 0>>

\* lines 364-371, 382-383: P4Error 'Too many rows scanned', raised when Perforce
\* has delivered what it delivers
P4TooManyRows ==
    /\ fpc = "p4"
    /\ IF cache_cl # 0
       THEN /\ rowscans' = IF rowscans < MaxRowScans THEN rowscans + 1 ELSE rowscans
            /\ p4_left' = {}
            /\ missing_range' = WholeRange(to_changelist)
            /\ retry' = retry + 1
            /\ fpc' = "retry"
            /\ at_yield' = FALSE
            /\ UNCHANGED <<fenv, exc, fargs, o4server_range, all_filenames,
                           perforce_filenames, highest_written_cl, first_cl, ffile,
                           lines, fhist, gvars, pvars, xvars>>
       ELSE Finally("exception")
    /\ UNCHANGED cache_dir

\* lines 372-375: P4Error 'Request too large', sys.exit
P4RequestTooLarge ==
    /\ fpc = "p4"
    /\ Finally("exit")
    /\ UNCHANGED cache_dir

\* lines 376-381, 384-385: P4Error 'no such file', the range has no revision
P4NoSuchFile ==
    /\ fpc = "p4"
    /\ fstat_from_perforce(missing_range[1], missing_range[2]) = {}
    /\ LoopLeft

\* lines 394-402, and the test of line 404
PerforceRows ==
    /\ fpc = "rows"
    /\ all_filenames' = all_filenames \cup {f[2] : f \in perforce_filenames}
    /\ IF perforce_filenames # {}
       THEN LET perforce_rows == SortedReverse(perforce_filenames)
            IN  /\ highest_written_cl' = Larger(highest_written_cl, perforce_rows[1][1])
                /\ fout' = fout \o perforce_rows
       ELSE UNCHANGED <<highest_written_cl, fout>>
    /\ fpc' = IF o4server_range[1] # 0 THEN "request2" ELSE "local"
    /\ UNCHANGED <<fenv, cache_dir, exc, at_yield, fargs, missing_range, o4server_range,
                   perforce_filenames, first_cl, retry, rowscans, temp_exists, fout_open,
                   fstream, fhist, gvars, pvars, xvars>>

\* lines 405-406 with status 200: the file the server redirected to
Server2OK ==
    /\ fpc = "request2"
    /\ ServerHas(o4server_range[1])
    /\ first_cl' = 0
    /\ lines' = fstat_from_server(o4server_range[1], o4server_range[2])
    /\ reported' = reported \cup Range(lines')
    /\ fpc' = "server2"
    /\ UNCHANGED <<fenv, cache_dir, exc, at_yield, fargs, missing_range, o4server_range,
                   all_filenames, perforce_filenames, highest_written_cl, retry, rowscans,
                   ffile, p4_left, yielded, timeouts, gvars, pvars, xvars>>

\* lines 407-416: one line of the server's second answer
Server2Line ==
    /\ fpc = "server2"
    /\ lines # <<>>
    /\ LET cl == Head(lines)[1]
           path == Head(lines)[2]
       IN  /\ first_cl' = IF first_cl # 0 THEN first_cl ELSE cl
           /\ IF ~Seen(path)
              THEN /\ all_filenames' = all_filenames \cup {path}
                   /\ fout' = Append(fout, Head(lines))
                   /\ IF InRange(cl)
                      THEN at_yield' = TRUE /\ yielded' = Yield(Head(lines))
                      ELSE at_yield' = FALSE /\ UNCHANGED yielded
              ELSE at_yield' = FALSE /\ UNCHANGED <<all_filenames, fout, yielded>>
    /\ lines' = Tail(lines)
    /\ UNCHANGED <<fenv, cache_dir, fpc, exc, fargs, missing_range, o4server_range,
                   perforce_filenames, highest_written_cl, retry, rowscans, temp_exists,
                   fout_open, p4_left, reported, timeouts, gvars, pvars, xvars>>

\* lines 417-418
Server2End ==
    /\ fpc = "server2"
    /\ lines = <<>>
    /\ highest_written_cl' = Larger(highest_written_cl, first_cl)
    /\ fpc' = "local"
    /\ at_yield' = FALSE
    /\ UNCHANGED <<fenv, cache_dir, exc, fargs, missing_range, o4server_range,
                   all_filenames, perforce_filenames, first_cl, retry, rowscans, ffile,
                   fstream, fhist, gvars, pvars, xvars>>

\* lines 420-422
LocalBegin ==
    /\ fpc = "local"
    /\ IF cache_cl # 0
       THEN /\ first_cl' = 0
            /\ lines' = cache_dir[cache_cl]
            /\ reported' = reported \cup (Range(lines') \ {HEADER})
            /\ fpc' = "cache"
       ELSE /\ UNCHANGED <<first_cl, lines, reported>>
            /\ fpc' = "close"
    /\ UNCHANGED <<fenv, cache_dir, exc, at_yield, fargs, missing_range, o4server_range,
                   all_filenames, perforce_filenames, highest_written_cl, retry, rowscans,
                   ffile, p4_left, yielded, timeouts, gvars, pvars, xvars>>

\* lines 422-432: one line of the local cache file
CacheLine ==
    /\ fpc = "cache"
    /\ lines # <<>>
    /\ LET cl == Head(lines)[1]
           path == Head(lines)[2]
       IN  IF cl = 0
           THEN /\ at_yield' = FALSE
                /\ UNCHANGED <<first_cl, all_filenames, fout, yielded>>
           ELSE /\ first_cl' = IF first_cl # 0 THEN first_cl ELSE cl
                /\ IF ~Seen(path)
                   THEN /\ fout' = Append(fout, Head(lines))
                        /\ IF InRange(cl)
                           THEN at_yield' = TRUE /\ yielded' = Yield(Head(lines))
                           ELSE at_yield' = FALSE /\ UNCHANGED yielded
                        /\ UNCHANGED all_filenames
                   ELSE /\ all_filenames' = all_filenames \ {path}
                        /\ at_yield' = FALSE
                        /\ UNCHANGED <<fout, yielded>>
    /\ lines' = Tail(lines)
    /\ UNCHANGED <<fenv, cache_dir, fpc, exc, fargs, missing_range, o4server_range,
                   perforce_filenames, highest_written_cl, retry, rowscans, temp_exists,
                   fout_open, p4_left, reported, timeouts, gvars, pvars, xvars>>

\* lines 433-434
CacheEnd ==
    /\ fpc = "cache"
    /\ lines = <<>>
    /\ highest_written_cl' = Larger(highest_written_cl, first_cl)
    /\ fpc' = "close"
    /\ at_yield' = FALSE
    /\ UNCHANGED <<fenv, cache_dir, exc, fargs, missing_range, o4server_range,
                   all_filenames, perforce_filenames, first_cl, retry, rowscans, ffile,
                   fstream, fhist, gvars, pvars, xvars>>

\* lines 436-438: without a changelist written the try block ends here
Close ==
    /\ fpc = "close"
    /\ IF highest_written_cl # 0
       THEN /\ fout_open' = FALSE
            /\ fpc' = "rename"
            /\ UNCHANGED <<fenv, exc, at_yield, fargs, fmerge, temp_exists, fout,
                           fstream, fhist, gvars, pvars, xvars>>
       ELSE Finally("done")
    /\ UNCHANGED cache_dir

\* lines 439-440
Rename ==
    /\ fpc = "rename"
    /\ cache_dir' = Renamed(cache_dir, highest_written_cl, fout)
    /\ temp_exists' = FALSE
    /\ fpc' = "renamed"
    /\ UNCHANGED <<fenv, exc, at_yield, fargs, fmerge, fout_open, fout, fstream, fhist,
                   gvars, pvars, xvars>>

\* the end of the try block after the rename
Done ==
    /\ fpc = "renamed"
    /\ Finally("done")
    /\ UNCHANGED cache_dir

\* an exception of the environment anywhere in the try block: the server
\* answers 404 or drops the connection, another P4Error, a full disk, ^C
Raise ==
    /\ fpc \in {"direct", "request", "server1", "perforce", "retry", "p4", "rows",
                "request2", "server2", "local", "cache", "close", "rename"}
    /\ Finally("exception")
    /\ UNCHANGED cache_dir

\* the consumer drops the generator while it is suspended at a yield:
\* GeneratorExit is raised there
Abandon ==
    /\ at_yield
    /\ fpc \in {"direct", "server1", "p4", "server2", "cache"}
    /\ Finally("abandon")
    /\ UNCHANGED cache_dir

(***************************************************************************)
(* Part S: o4_sync (o4.py 734-1060) on one workspace.                      *)
(* The workspace is the two marker files of .o4, the file on disk for each *)
(* path and the server's have list.  A file on disk is known by the        *)
(* changelist of the revision it holds, 0 when it is missing; a path that  *)
(* no revision up to the target changelist names has target 0 (its record  *)
(* is a delete).  A pipeline of run_cmd is one step: its stages run to the *)
(* end of their input before run_cmd returns.                              *)
(***************************************************************************)
\* os.path.exists('.o4/changelist') is false
Absent == 0 - 1

\* lines 879-886: previous_cl
ReadMarker(file) == IF file = Absent THEN 0 ELSE file

\* line 916
EarlyExit(prev, cl, f) == prev = cl /\ ~f

\* lines 921-922: SYNCED_CL_FILE afterwards
RemoveMarker_Kept(file) == file
RemoveMarker(file) == Absent

\* the revision of a path that changelist cl asks for
Target(path, cl) == HeadChange(path, 1, cl)

\* what fstat_iter(depot_path, to, from) yields when it is read to its end:
\* the head records above from up to to, the highest changelist first
\* (o4_fstat.py 279-296)
FstatIter(to, from) == SortedReverse(Revisions(from + 1, to))

\* a drop or keep list is None or <<the set of its paths>>; `if drop:`
Truthy(list) == list # None /\ list[1] # {}
SetOf(list) == IF list = None THEN {} ELSE list[1]

\* o4_fstat, lines 345-348: past_filenames
PastFilenames(cl) == {r[2] : r \in Revisions(1, cl)}

\* o4_fstat, lines 341-365, going back from prev to cl: the delete records
\* printed, and what drop and keep hold afterwards.  A printed record is
\* <<changelist, path, kind>>.
ReversePass(cl, prev, f, drop, keep) ==
    LET between == FstatIter(prev, cl)
        added == SelectSeq(between, LAMBDA r : r[2] \notin PastFilenames(cl))
        others == {between[i][2] : i \in 1..Len(between)} \cap PastFilenames(cl)
    IN  [out |-> [i \in 1..Len(added) |-> <<cl, added[i][2], "delete">>],
         drop |-> <<SetOf(drop) \cup (IF f THEN {added[i][2] : i \in 1..Len(added)} ELSE {})>>,
         keep |-> <<SetOf(keep) \cup (IF f THEN {} ELSE others)>>]

\* lines 367-379: drop has priority, and an empty list is no list
KeepList(drop, keep) ==
    LET k == IF Truthy(drop) /\ Truthy(keep) THEN <<keep[1] \ drop[1]>> ELSE keep
    IN  IF Truthy(k) THEN k ELSE None
DropList(drop) == IF Truthy(drop) THEN drop ELSE None

\* lines 388-415: the lines that are printed; drop_n and keep_n are the sizes
\* of drop and keep
RECURSIVE PrintLoop(_, _, _)
PrintLoop(fstats_, drop, keep) ==
    IF fstats_ = <<>> THEN <<>>
    ELSE LET line == <<Head(fstats_)[1], Head(fstats_)[2], "record">>
             path == Head(fstats_)[2]
             rest == Tail(fstats_)
         IN  IF drop # None /\ path \in drop[1]
             THEN PrintLoop(rest, IF drop[1] = {path} THEN None ELSE <<drop[1] \ {path}>>, keep)
             ELSE IF keep = None THEN <<line>> \o PrintLoop(rest, drop, keep)
             ELSE IF path \notin keep[1] THEN PrintLoop(rest, drop, keep)
             ELSE IF keep[1] = {path} THEN <<line>>
             ELSE <<line>> \o PrintLoop(rest, drop, <<keep[1] \ {path}>>)

\* o4_fstat (lines 317-415) without --quiet and --add: what it prints
o4_fstat(cl, prev, f, drop, keep) ==
    IF prev = cl THEN <<>>
    ELSE LET back == prev # 0 /\ prev > cl
             r == ReversePass(cl, prev, f, drop, keep)
             d == IF back THEN r.drop ELSE drop
             k == IF back THEN r.keep ELSE keep
         IN  (IF back THEN r.out ELSE <<>>)
                 \o PrintLoop(FstatIter(cl, IF back THEN 0 ELSE prev),
                              DropList(d), KeepList(d, k))

\* a generator fstat_iter(depot_path, to, from) and its use: the lines it has
\* to yield and the next() calls made on it; the call after the last line is
\* the one that runs it to its end
Generator(to, from, n) ==
    [to |-> to, from |-> from, lines |-> Len(FstatIter(to, from)), calls |-> n]

\* a loop or a comprehension that is not left early (lines 327, 345, 352)
ReadAll(stream) == Len(stream) + 1

\* line 411: sum(0 for line in fstats), on what is left of the stream
Drain_Skipped(rest) == 0
Drain(rest) == Len(rest) + 1

\* lines 388-415: the next() calls of the loop on fstats
RECURSIVE ReadLoop(_, _, _)
ReadLoop(fstats_, drop, keep) ==
    IF fstats_ = <<>> THEN 1
    ELSE LET path == Head(fstats_)[2]
             rest == Tail(fstats_)
         IN  IF drop # None /\ path \in drop[1]
             THEN 1 + ReadLoop(rest, IF drop[1] = {path} THEN None ELSE <<drop[1] \ {path}>>, keep)
             ELSE IF keep = None THEN 1 + ReadLoop(rest, drop, keep)
             ELSE IF path \notin keep[1] THEN 1 + ReadLoop(rest, drop, keep)
             ELSE IF keep[1] = {path} THEN 1 + Drain(rest)
             ELSE 1 + ReadLoop(rest, drop, <<keep[1] \ {path}>>)

\* o4_fstat (lines 317-415) without --quiet: the generators it makes
o4_fstat_iters(cl, prev, f, drop, keep) ==
    IF prev = cl THEN <<>>
    ELSE LET back == prev # 0 /\ prev > cl
             r == ReversePass(cl, prev, f, drop, keep)
             d == IF back THEN r.drop ELSE drop
             k == IF back THEN r.keep ELSE keep
             from == IF back THEN 0 ELSE prev
         IN  (IF back
              THEN <<Generator(cl, 0, ReadAll(FstatIter(cl, 0))),
                     Generator(prev, cl, ReadAll(FstatIter(prev, cl)))>>
              ELSE <<>>)
                 \o <<Generator(cl, from,
                                ReadLoop(FstatIter(cl, from), DropList(d), KeepList(d, k)))>>

\* lines 324-330, o4_fstat with --quiet: the generator is read by max(), which
\* raises ValueError when it yields nothing
QuietEnd(cl, prev, drop, keep) ==
    IF prev = cl THEN "return"
    ELSE IF drop # None \/ keep # None THEN "exit"
    ELSE IF FstatIter(cl, prev) = <<>> THEN "exception"
    ELSE "return"
QuietIters(cl, prev, drop, keep) ==
    IF prev = cl \/ drop # None \/ keep # None THEN <<>>
    ELSE <<Generator(cl, prev, ReadAll(FstatIter(cl, prev)))>>
\* line 329: the INFO line, which goes to stdout
QuietPrinted(cl, prev, drop, keep) ==
    IF QuietEnd(cl, prev, drop, keep) = "return" /\ prev # cl
    THEN <<<<FstatIter(cl, prev)[1][1], "", "info">>>>
    ELSE <<>>

\* the paths of printed records
PathsOf(out) == {out[i][2] : i \in 1..Len(out)}

\* the paths of the records that 'o4 fstat ...@cl [--changed prev]' prints
\* (o4_fstat, lines 317-415): everything without prev, the changes after prev
\* going forward, and going back the paths changed in between: a delete for
\* the ones that did not exist at cl and, unless there is none, only the others
\* of them
FstatPaths(cl, prev) ==
    LET past == {q \in Paths : Target(q, cl) # 0}
        between == {q \in Paths : HeadChange(q, cl + 1, prev) # 0}
    IN  IF prev = 0 THEN past
        ELSE IF prev <= cl THEN {q \in Paths : HeadChange(q, prev + 1, cl) # 0}
        ELSE (between \ past) \cup (IF between \cap past = {} THEN past
                                    ELSE between \cap past)

\* lines 902-906: fstat gets --changed only with previous_cl and without force
FstatChanged == IF previous_cl # 0 /\ ~force THEN previous_cl ELSE 0

\* lines 982, 993: --keep of the opened files, --drop of them afterwards
OpenedRecords ==
    IF has_open = {} THEN {}
    ELSE PathsOf(o4_fstat(s_changelist, FstatChanged, force, None, <<has_open>>))
Records ==
    PathsOf(o4_fstat(s_changelist, FstatChanged, force,
                     IF has_open = {} THEN None ELSE <<has_open>>, None))

\* f_checksum (lines 504-514) dislikes the row
Stale(path) == local[path] # Target(path, s_changelist)

\* line 1021: drop --not-deletes --existence keeps the deletes whose file exists
DeleteRecords == {q \in Records : Target(q, s_changelist) = 0 /\ local[q] # 0}
\* line 1035: drop --deletes
SyncRecords == {q \in Records : Target(q, s_changelist) # 0}

\* o4_drop_have (lines 451-458): a record with a checksum that the have list
\* does not hold
HaveRecords == {q \in Records : Target(q, s_changelist) # 0
                                /\ have[q] # Target(q, s_changelist)}

\* every pipeline starts with o4 fstat, whose fstat_iter leaves the cache file
\* of the highest changelist it wrote (o4_fstat.py 436-440)
FstatCache(dir, cl) ==
    LET top == Max({Target(q, cl) : q \in Paths})
    IN  IF top = 0 \/ top \in DOMAIN dir THEN dir
        ELSE Renamed(dir, top, ServerFile(top))

\* the files of S are as cl asks, on disk and in the have list
Synced(f, S) == [q \in Paths |-> IF q \in S THEN Target(q, s_changelist) ELSE f[q]]

\* history: the steps of this call that ended well, and "p4sync" once a
\* 'p4 sync' has been started
DidP4(p4sync) == did \cup (IF p4sync THEN {"p4sync"} ELSE {})
Did(step, p4sync) == DidP4(p4sync) \cup {step}

\* sys.exit(1) of run_cmd (line 853), or an exception that nothing catches
SyncExit ==
    /\ s_exit' = "exit"
    /\ UNCHANGED <<spc, syncs, sargs, previous_cl, has_open, actual_cl, again>>

\* lines 865-919: the clientspec check, previous_cl and the early exit
SyncStart(cl, f, q, s) ==
    /\ spc = "idle" \/ s_exit # "none"
    /\ syncs < MaxSyncs
    /\ syncs' = syncs + 1
    /\ s_changelist' = cl
    /\ force' = f
    /\ quick' = q
    /\ seed' = s
    /\ previous_cl' = ReadMarker(changelist_file)
    /\ has_open' = {}
    /\ actual_cl' = 0
    /\ did' = {}
    /\ again' = (s_exit \in {"done", "return"}
                 /\ <<cl, f, q, s>> = <<s_changelist, force, quick, seed>>)
    /\ IF EarlyExit(previous_cl', cl, f)
       THEN spc' = "idle" /\ s_exit' = "return"
       ELSE spc' = "remove" /\ s_exit' = "none"
    /\ UNCHANGED <<sfiles, swork, fvars, gvars, xvars, qvars>>

\* lines 865-875: the clientspec maps a depot path to another local path;
\* the arguments of the call play no part
NotVanilla ==
    /\ spc = "idle" \/ s_exit # "none"
    /\ syncs < MaxSyncs
    /\ syncs' = syncs + 1
    /\ previous_cl' = 0
    /\ has_open' = {}
    /\ actual_cl' = 0
    /\ did' = {}
    /\ again' = FALSE
    /\ spc' = "idle"
    /\ s_exit' = "exit"
    /\ UNCHANGED <<sfiles, swork, sargs, fvars, gvars, xvars, qvars>>

\* lines 921-922
Remove ==
    /\ s_exit = "none"
    /\ spc = "remove"
    /\ changelist_file' = IF changelist_file # Absent THEN RemoveMarker(changelist_file)
                          ELSE changelist_file
    /\ did' = IF changelist_file # Absent THEN Did("remove", FALSE) ELSE did
    /\ spc' = "opened"
    /\ UNCHANGED <<incomplete_file, swork, syncs, sargs, s_exit, previous_cl, has_open,
                   actual_cl, again, fvars, gvars, xvars, qvars>>

\* lines 924-999 without run_cmd: p4 opened, the list of the opened files;
\* skip_opened is read here only (line 994)
Opened(open, skip_opened) ==
    /\ s_exit = "none"
    /\ spc = "opened"
    /\ has_open' = open
    /\ did' = Did("opened", FALSE)
    /\ spc' = IF open # {} /\ ~skip_opened THEN "open_pipeline" ELSE "sync1"
    /\ UNCHANGED <<sfiles, swork, syncs, sargs, s_exit, previous_cl, actual_cl, again,
                   fvars, gvars, xvars, qvars>>

\* line 995: the opened files go to 'pyforce sync' and 'resolve -am' without a
\* checksum filter; the have list follows, the file keeps the user's content
OpenPipeline(ok) ==
    /\ s_exit = "none"
    /\ spc = "open_pipeline"
    /\ cache_dir' = FstatCache(cache_dir, s_changelist)
    /\ IF ok
       THEN /\ have' = Synced(have, OpenedRecords)
            /\ did' = Did("open_pipeline", OpenedRecords # {})
            /\ spc' = "sync1"
            /\ UNCHANGED <<syncs, sargs, s_exit, previous_cl, has_open, actual_cl, again>>
       ELSE /\ have' = have
            /\ did' = DidP4(OpenedRecords # {})
            /\ SyncExit
    /\ UNCHANGED <<sfiles, local, frest, gvars, xvars, qvars>>

\* a pipeline of lines 1002-1024: with a seed seed-from takes every record and
\* copies the files in copied, the others and the deletes go to
\* 'pyforce sync -f'; without a seed 'drop --checksum' lets the stale files
\* through to 'pyforce sync'.  The files in fixed come out right; o4 fail
\* rejects the pipeline when a record is left.
SyncPipeline(step, next, records, copied, fixed, ok) ==
    LET asked == IF seed THEN records \ copied ELSE {q \in records : Stale(q)}
    IN  /\ copied \subseteq {q \in records : seed /\ Target(q, s_changelist) # 0}
        /\ fixed \subseteq asked
        /\ ok => fixed = asked
        /\ cache_dir' = FstatCache(cache_dir, s_changelist)
        /\ local' = Synced(local, copied \cup fixed)
        /\ have' = Synced(have, fixed)
        /\ IF ok
           THEN /\ did' = Did(step, asked # {})
                /\ spc' = next
                /\ UNCHANGED <<syncs, sargs, s_exit, previous_cl, has_open, actual_cl,
                               again>>
           ELSE /\ did' = DidP4(asked # {})
                /\ SyncExit
        /\ UNCHANGED <<sfiles, frest, gvars, xvars, qvars>>

\* lines 1021-1025
Sync1(copied, fixed, ok) ==
    /\ s_exit = "none"
    /\ spc = "sync1"
    /\ SyncPipeline("sync1", "flush", DeleteRecords, copied, fixed, ok)

\* lines 1027-1032: p4 -q sync -k ...@changelist
Flush ==
    /\ s_exit = "none"
    /\ spc = "flush"
    /\ IF seed /\ previous_cl = 0
       THEN /\ have' = Synced(have, Paths)
            /\ did' = Did("flush", TRUE)
       ELSE UNCHANGED <<have, did>>
    /\ spc' = "sync2"
    /\ UNCHANGED <<sfiles, local, syncs, sargs, s_exit, previous_cl, has_open, actual_cl,
                   again, fvars, gvars, xvars, qvars>>

\* lines 1034-1039
Sync2(copied, fixed, ok) ==
    /\ s_exit = "none"
    /\ spc = "sync2"
    /\ SyncPipeline("sync2", "publish", SyncRecords, copied, fixed, ok)

\* lines 1041-1043
Publish ==
    /\ s_exit = "none"
    /\ spc = "publish"
    /\ actual_cl' = get_fstat_cache(s_changelist)
    /\ changelist_file' = actual_cl'
    /\ did' = Did("write", FALSE)
    /\ spc' = IF seed \/ ~quick THEN "verify" ELSE "end"
    /\ UNCHANGED <<incomplete_file, swork, syncs, sargs, s_exit, previous_cl, has_open,
                   again, fvars, gvars, xvars, qvars>>

\* lines 1045-1054: the records the have list lacks go to 'pyforce sync -k'
Verify(fixed, ok) ==
    /\ s_exit = "none"
    /\ spc = "verify"
    /\ fixed \subseteq HaveRecords
    /\ ok => fixed = HaveRecords
    /\ cache_dir' = FstatCache(cache_dir, s_changelist)
    /\ have' = Synced(have, fixed)
    /\ IF ok
       THEN /\ did' = Did("verify", HaveRecords # {})
            /\ spc' = "end"
            /\ UNCHANGED <<syncs, sargs, s_exit, previous_cl, has_open, actual_cl, again>>
       ELSE /\ did' = DidP4(HaveRecords # {})
            /\ SyncExit
    /\ UNCHANGED <<sfiles, local, frest, gvars, xvars, qvars>>

\* lines 1055-1060: o4_sync returns
SyncDone ==
    /\ s_exit = "none"
    /\ spc = "end"
    /\ s_exit' = "done"
    /\ UNCHANGED <<sfiles, swork, syncs, sargs, spc, previous_cl, has_open, actual_cl,
                   shist, fvars, gvars, xvars, qvars>>

\* p4 opened (line 924) or the flush (line 1031) raises: P4Error, a timeout
SyncRaise ==
    /\ s_exit = "none"
    /\ spc \in {"opened", "flush"}
    /\ SyncExit
    /\ UNCHANGED <<sfiles, swork, did, fvars, gvars, xvars, qvars>>

(***************************************************************************)
(* Parts L and T: the commands of a pipeline that read fstat lines from    *)
(* stdin: o4 fail (o4_fail, o4.py 1283-1331) and the stages o4_filter,     *)
(* o4_drop_have, o4_pyforce and o4_seed_from, each run through main (o4.py *)
(* 1473-1519).  A line is the sequence of its pieces; the pieces "#", ","  *)
(* and the line end are single characters and no other piece holds one of  *)
(* them.  What stdout holds is kept with its origin: "pass" for a line     *)
(* handed on by the passthrough test, "record" for a record of the input,  *)
(* "made" for a line the stage writes of its own.                          *)
(***************************************************************************)
\* '#o4pass-' (line 1290) and '#o4pass' (lines 206, 430, 558, 590)
PASS_DASH == <<"#", "o4pass", "-">>
PASS == <<"#", "o4pass">>

\* 'err' (line 1296), letter by letter
ERR == <<"e", "r", "r">>

\* the lines of the input, without the line end
Texts ==
    { <<"#", "o4pass", "-", "info", "#", "m">>,
      <<"#", "o4pass", "-", "warn", "#", "m">>,
      PASS_DASH \o ERR \o <<"#", "m">>,
      \* an info line that names the prefix in its message
      <<"#", "o4pass", "-", "info", "#">> \o PASS_DASH \o ERR \o <<"#">>,
      \* the prefix twice: the kind, up to the next '#', is empty
      PASS_DASH \o PASS_DASH \o ERR \o <<"#", "m">>,
      \* the prefix once more inside the kind 'er'
      <<"#", "o4pass", "-", "e", "r", "#", "o4pass", "-", "r", "#", "m">>,
      \* '#o4passm': passed on by the stages, a comment for o4 fail
      <<"#", "o4pass", "m">>,
      \* a comment and a blank line
      <<"#", "m">>,
      <<>>,
      \* a record, a delete (no checksum), a line with too few columns
      <<"1", ",", "a", ",", "1", ",", "9", ",", "C">>,
      <<"2", ",", "b", ",", "2", ",", "0", ",">>,
      <<"m">> }

\* sys.stdin holds lines that end with the line end
Inputs == SeqsUpTo({t \o <<NL>> : t \in Texts}, MaxLines)

\* str.startswith
StartsWith(s, pre) == Len(s) >= Len(pre) /\ SubSeq(s, 1, Len(pre)) = pre

\* str.replace(old, ''): every occurrence, from the left
RECURSIVE Replace(_, _)
Replace(s, old) ==
    IF Len(s) < Len(old) THEN s
    ELSE IF SubSeq(s, 1, Len(old)) = old
         THEN Replace(SubSeq(s, Len(old) + 1, Len(s)), old)
         ELSE <<Head(s)>> \o Replace(Tail(s), old)

\* str.partition(sep) for a separator of one character
Partition(s, sep) ==
    LET hits == {i \in 1..Len(s) : s[i] = sep}
    IN  IF hits = {} THEN <<s, <<>>, <<>>>>
        ELSE LET i == CHOOSE h \in hits : \A k \in hits : h <= k
             IN  <<SubSeq(s, 1, i - 1), <<sep>>, SubSeq(s, i + 1, Len(s))>>

\* str.rstrip(): the line end goes
RECURSIVE Rstrip(_)
Rstrip(s) ==
    IF s # <<>> /\ s[Len(s)] = NL THEN Rstrip(SubSeq(s, 1, Len(s) - 1)) ELSE s

\* str.replace(old, new) of a string given character by character
RECURSIVE StrReplace(_, _, _)
StrReplace(s, old, new) ==
    IF Len(s) < Len(old) THEN s
    ELSE IF SubSeq(s, 1, Len(old)) = old
    THEN new \o StrReplace(SubSeq(s, Len(old) + 1, Len(s)), old, new)
    ELSE <<Head(s)>> \o StrReplace(Tail(s), old, new)

\* str.split(sep, maxsplit)
RECURSIVE Split(_, _, _)
Split(s, sep, maxsplit) ==
    LET part == Partition(s, sep)
    IN  IF maxsplit = 0 \/ part[2] = <<>> THEN <<s>>
        ELSE <<part[1]>> \o Split(part[3], sep, maxsplit - 1)

\* fstat_split (o4_fstat.py 81-103) raises FstatMalformed
Malformed(text) ==
    LET s == Rstrip(text)
    IN  /\ s # <<>>
        /\ s[1] # "#"
        /\ Len(Split(s, ",", 6)) \notin {5, 7}

\* fstat_split (o4_fstat.py 81-103): None for a blank line or a comment, the
\* five columns otherwise, the path unescaped (line 95), taken from the seven
\* of the old format if need be.
fstat_split(text) ==
    LET s == Rstrip(text)
        cols == Split(s, ",", 6)
    IN  IF s = <<>> \/ s[1] = "#" THEN None
        ELSE IF Len(cols) = 5
        THEN [cols EXCEPT ![2] = StrReplace(StrReplace(@, <<";", ".">>, <<",">>),
                                            <<";", ";">>, <<";">>)]
        ELSE <<cols[1], cols[7], cols[2], cols[3], cols[6]>>

\* fstat_join (o4_fstat.py 73-78): the path escaped (line 77)
fstat_join(f) ==
    LET path == StrReplace(StrReplace(f[2], <<";">>, <<";", ";">>), <<",">>, <<";", ".">>)
    IN  f[1] \o <<",">> \o path \o <<",">> \o f[3] \o <<",">> \o f[4] \o <<",">> \o f[5]

\* print(s): s and a line end, as stdout keeps it
Emit(out, s, origin) == Append(out, <<s \o <<NL>>, origin>>)
\* print(s, end='')
EmitRaw(out, s, origin) == Append(out, <<s, origin>>)

\* sys.exit(code), or main's sys.exit(ec) (line 1519)
Exit(code) == ec' = <<code>>

(***************************************************************************)
(* Part L: o4 fail.                                                        *)
(***************************************************************************)
\* lines 1291-1297: the list that takes the message of a passthrough line
MsgType(text) == Partition(Replace(text, PASS_DASH), "#")[1]
Msg(text) == Partition(Replace(text, PASS_DASH), "#")[3]

\* lines 1289-1304, for a line that fstat_split takes
FailLine ==
    /\ lpc = "loop"
    /\ stdin # <<>>
    /\ ~(~StartsWith(Head(stdin), PASS_DASH) /\ Malformed(Head(stdin)))
    /\ stdin' = Tail(stdin)
    /\ LET text == Head(stdin)
           f == fstat_split(text)
       IN  IF StartsWith(text, PASS_DASH)
           THEN /\ infos' = IF MsgType(text) = <<"info">>
                            THEN Append(infos, Msg(text)) ELSE infos
                /\ warnings' = IF MsgType(text) = <<"warn">>
                               THEN Append(warnings, Msg(text)) ELSE warnings
                /\ errors' = IF MsgType(text) = ERR
                             THEN Append(errors, Msg(text)) ELSE errors
                /\ UNCHANGED <<files, n_files>>
           ELSE IF f = None
           THEN UNCHANGED <<files, n_files, infos, warnings, errors>>
           ELSE /\ n_files' = n_files + 1
                /\ files' = IF n_files' < 100 THEN Append(files, <<f[2], f[3]>>)
                            ELSE files
                /\ UNCHANGED <<infos, warnings, errors>>
    /\ UNCHANGED <<lpc, input, ec, svars, tvars, fvars, gvars, xvars>>

\* line 1299 raises FstatMalformed: main reports it and exits with 1 (lines
\* 1512-1519)
FailMalformed ==
    /\ lpc = "loop"
    /\ stdin # <<>>
    /\ ~StartsWith(Head(stdin), PASS_DASH)
    /\ Malformed(Head(stdin))
    /\ lpc' = "exited"
    /\ Exit(1)
    /\ UNCHANGED <<stdin, input, files, n_files, infos, warnings, errors, svars, tvars,
                   fvars, gvars, xvars>>

\* lines 1306-1331, and line 1519 when o4_fail returns
FailEnd ==
    /\ lpc = "loop"
    /\ stdin = <<>>
    /\ lpc' = "exited"
    /\ IF files = <<>> /\ infos = <<>> /\ warnings = <<>> /\ errors = <<>> THEN Exit(0)
       ELSE IF files # <<>> \/ errors # <<>> THEN Exit(1)
       ELSE Exit(0)
    /\ UNCHANGED <<stdin, input, files, n_files, infos, warnings, errors, svars, tvars,
                   fvars, gvars, xvars>>

(***************************************************************************)
(* Part T: the stages.                                                     *)
(***************************************************************************)
Stages == {"filter", "drop_have", "pyforce", "seed_from"}

\* line.startswith('#o4pass') (lines 206, 430, 558, 590)
IsPass_Never(text) == FALSE
IsPass(text) == StartsWith(text, PASS)

\* an exception in the stage: main exits with 1 (lines 1512-1519)
StageRaise ==
    /\ tpc' = "exited"
    /\ Exit(1)

\* what a stage leaves alone when it takes a line
StageFrame0 == <<topts, input, lvars, svars, fvars, gvars, xvars>>
StageFrame == <<pmore, StageFrame0>>

\* the paths of the records
HavePaths == {<<"a">>, <<"b">>}

\* what a path is on disk
Kinds == {"missing", "file", "dir"}

\* the predicates of o4_filter, in the order of main (lines 1487-1499)
FNames == <<"deletes", "existence", "checksum", "case", "open", "deleted">>

\* no predicate looks at the disk
NoFs == [kind |-> [q \in HavePaths |-> "missing"], same |-> FALSE, accurate |-> TRUE,
         opened |-> {}, named |-> {}]

\* lines 470-471
f_deletes(row) == row[5] = <<>>

\* lines 473-474
f_case(row) == fs.accurate

\* lines 476-484: the path is a key of p4open
f_open(row) == row[2] \in fs.opened

\* lines 495-502: os.path.lexists(path) and not os.path.isdir(path) is as
\* bool(checksum)
f_existence(row) == (fs.kind[row[2]] = "file") = (row[5] # <<>>)

\* lines 504-514; fs.same: Pyforce.checksum gives the checksum of the row (no
\* file size here ends with 'symlink')
f_checksum(row) ==
    IF fs.kind[row[2]] # "missing"
    THEN IF row[5] = <<>> THEN fs.kind[row[2]] = "dir" ELSE fs.same
    ELSE row[5] = <<>>

\* lines 526-529: fnames are the paths given with --deleted
f_deleted(row) ==
    IF row[2] \in fs.named THEN fs.kind[row[2]] = "missing" ELSE FALSE

\* locals()['f_' + fname](row)
Apply(fname, row) ==
    CASE fname = "deletes" -> f_deletes(row)
      [] fname = "existence" -> f_existence(row)
      [] fname = "checksum" -> f_checksum(row)
      [] fname = "case" -> f_case(row)
      [] fname = "open" -> f_open(row)
      [] fname = "deleted" -> f_deleted(row)

\* lines 516-519: inverter, evaluated
Inverted(f, row) == IF f[2] THEN ~Apply(f[1], row) ELSE Apply(f[1], row)

\* lines 534-554: combo_func(row)
combo_func_Any(row) == \E i \in 1..Len(funcs) : Inverted(funcs[i], row)
combo_func(row) ==
    IF Len(funcs) = 1 /\ filtertype # "drop" /\ ~funcs[1][2] THEN Apply(funcs[1][1], row)
    ELSE IF filtertype = "drop" THEN ~(\E i \in 1..Len(funcs) : Inverted(funcs[i], row))
    ELSE IF filtertype = "keep-any" THEN \E i \in 1..Len(funcs) : Inverted(funcs[i], row)
    ELSE \A i \in 1..Len(funcs) : Inverted(funcs[i], row)

\* o4_filter, lines 521-554: without a predicate it exits with a message
FilterSetup ==
    /\ stage = "filter"
    /\ tpc = "setup"
    /\ IF funcs # <<>> THEN tpc' = "loop" /\ UNCHANGED ec
       ELSE StageRaise
    /\ UNCHANGED <<stdin, stdout, have_list, fstats, retries, clobbers, StageFrame>>

\* o4_filter, lines 557-566: one line; raised: a predicate fails (p4 opened,
\* reading the file)
FilterLine(raised) ==
    /\ stage = "filter"
    /\ tpc = "loop"
    /\ stdin # <<>>
    /\ LET text == Head(stdin)
           row == fstat_split(text)
       IN  IF IsPass(text)
           THEN /\ stdout' = EmitRaw(stdout, text, "pass")
                /\ stdin' = Tail(stdin)
                /\ UNCHANGED <<tpc, ec>>
           ELSE IF Malformed(text) \/ (row # None /\ raised)
           THEN StageRaise /\ UNCHANGED <<stdin, stdout>>
           ELSE /\ stdout' = IF row = None THEN stdout
                             ELSE IF combo_func(row)
                             THEN Emit(stdout, fstat_join(row), "record")
                             ELSE IF verbose THEN Emit(stdout, <<"#">> \o row[2], "made")
                             ELSE stdout
                /\ stdin' = Tail(stdin)
                /\ UNCHANGED <<tpc, ec>>
    /\ UNCHANGED <<have_list, fstats, retries, clobbers, StageFrame>>

\* what 'p4 have' may list: <<path, revision>> for a line '<path>#<rev> - ...'
HaveEntries == {<<<<"a">>, <<"1">>>>, <<<<"a">>, <<"2">>>>, <<<<"b">>, <<"2">>>>}

\* o4_drop_have, lines 428-458: one of the lines of stdin.read().splitlines();
\* listing is what 'p4 have' lists, failed that it ends with an error
DropHaveLine(listing, failed) ==
    /\ stage = "drop_have"
    /\ tpc = "loop"
    /\ stdin # <<>>
    /\ LET text == Rstrip(Head(stdin))
           f == fstat_split(text)
           asks == have_list = None
           list == IF asks THEN listing ELSE have_list[1]
       IN  IF IsPass(text)
           THEN /\ stdout' = Emit(stdout, text, "pass")
                /\ stdin' = Tail(stdin)
                /\ UNCHANGED <<tpc, ec, have_list>>
           ELSE IF ~asks /\ have_list[1] = {}
           THEN /\ stdout' = Emit(stdout, text, "record")
                /\ stdin' = Tail(stdin)
                /\ UNCHANGED <<tpc, ec, have_list>>
           ELSE IF (asks /\ failed) \/ Malformed(text)
           THEN /\ StageRaise
                /\ have_list' = IF asks /\ ~failed THEN <<listing>> ELSE have_list
                /\ UNCHANGED <<stdin, stdout>>
           ELSE /\ have_list' = <<list>>
                /\ stdout' = IF f # None /\ <<f[2], f[3]>> \notin list /\ f[5] # <<>>
                             THEN Emit(stdout, text, "record") ELSE stdout
                /\ stdin' = Tail(stdin)
                /\ UNCHANGED <<tpc, ec>>
    /\ UNCHANGED <<fstats, retries, clobbers, StageFrame>>

\* o4_pyforce, lines 589-599: one of the lines of stdin.read().splitlines();
\* accurate is what caseful_accurate says of the path
PyforceLine(accurate) ==
    /\ stage = "pyforce"
    /\ tpc = "loop"
    /\ stdin # <<>>
    /\ LET text == Rstrip(Head(stdin))
           f == fstat_split(text)
       IN  IF IsPass(text)
           THEN /\ stdout' = Emit(stdout, text, "pass")
                /\ stdin' = Tail(stdin)
                /\ UNCHANGED <<tpc, ec, fstats>>
           ELSE IF Malformed(text)
           THEN StageRaise /\ UNCHANGED <<stdin, stdout, fstats>>
           ELSE /\ fstats' = IF f # None /\ accurate THEN Append(fstats, f) ELSE fstats
                /\ stdin' = Tail(stdin)
                /\ UNCHANGED <<tpc, ec, stdout>>
    /\ UNCHANGED <<have_list, retries, clobbers, StageFrame>>

(***************************************************************************)
(* o4_pyforce and the Pyforce iterator (o4_pyforce.py 42-113).  A result   *)
(* of p4 is a record of its code, what its data says, the path of the      *)
(* input it names (by depotFile, fromFile or in its data; "x" is a path    *)
(* that is not in the input, "" none) and whether it has a resolveFlag.    *)
(* No path here is part of another path.                                   *)
(***************************************************************************)
Reply(code, data, path, flag) == [code |-> code, data |-> data, path |-> path, flag |-> flag]

\* the bodies of lines 67-69 and 76-84 of o4_pyforce.py
CantMove == {"can't move (already opened for edit)",
             "is opened for add and can't be replaced",
             "- resolve skipped"}
UpToDate == {"file(s) up-to-date", "no file(s) to reconcile", "no file(s) to resolve",
             "no file(s) to unshelve", "file(s) not on client",
             "No shelved files in changelist to delete"}
TooEarly == {"no file(s) at that changelist number",
             "no revision(s) above those at that changelist number"}
TimedOut == {"Connection timed out", "TCP receive exceeded"}
\* 'Diff chunks: ...', with and without conflicts (o4_pyforce.py 65, o4.py 647)
DiffChunks == {"Diff chunks: + 0 conflicting", "Diff chunks: + 1 conflicting"}

\* Pyforce.__next__, lines 60-73: an info with data
Info(reply) ==
    IF reply.code = "info" /\ reply.data \in CantMove
    THEN [reply EXCEPT !.code = "stat"] ELSE reply

\* lines 72: the line that goes to stdout with it
InfoLine(reply) ==
    IF reply.code = "info" /\ reply.data \in CantMove
    THEN <<PASS_DASH \o <<"warn", "#", reply.data>>>> ELSE <<>>

\* lines 76-84: an error is no error after all
Retag_Never(reply) == reply
Retag(reply) ==
    IF reply.data \in UpToDate THEN [reply EXCEPT !.code = "stat"]
    ELSE IF reply.data \in TooEarly THEN [reply EXCEPT !.code = "skip"]
    ELSE reply

\* lines 60-97 for one result of marshal.load: it is returned, kept for the
\* P4Error at the end, or a timeout
Next1(reply) ==
    LET r == Info(reply)
    IN  IF r.code # "error" THEN <<"return", r>>
        ELSE IF r.data = "" THEN <<"keep", r>>
        ELSE IF Retag(r).code # "error" THEN <<"return", Retag(r)>>
        ELSE IF r.data \in TimedOut THEN <<"timeout", r>>
        ELSE <<"keep", r>>

\* lines 98-113: the stream has ended; err is what stderr holds
StderrError == Reply("error", "stderr", "", FALSE)
AtEOF(errlist, err) ==
    IF err = "timed out" THEN <<"timeout", errlist>>
    ELSE LET all == IF err = "" THEN errlist ELSE Append(errlist, StderrError)
         IN  IF all # <<>> THEN <<"P4Error", all>> ELSE <<"StopIteration", all>>

\* o4.py line 666: the first record of fstats that the result names, 0 for none
Match(fs_, reply) ==
    LET hits == {i \in 1..Len(fs_) : fs_[i][2] = <<reply.path>>}
    IN  IF hits = {} THEN 0 ELSE CHOOSE i \in hits : \A k \in hits : i <= k

\* line 669: fstats.pop(i)
Pop_Kept(fs_, i) == fs_
Pop(fs_, i) == SubSeq(fs_, 1, i - 1) \o SubSeq(fs_, i + 1, Len(fs_))

\* lines 670-671: the record waits in queued_prints
Queue(q, reply, f) == IF reply.code # "mute" THEN Append(q, f) ELSE q

\* lines 667-676: what a match writes to stdout; moved: p4_operation says
\* 'move/...'
Matched_Now(out, reply, f, moved) == Emit(out, fstat_join(f), "record")
Matched(out, reply, f, moved) ==
    IF reply.data = "- resolve skipped" /\ moved
    THEN Emit(out, PASS_DASH \o ERR \o <<"#", "m">>, "made")
    ELSE out

\* the finally clause (lines 728-731): the queued records unless quiet
RECURSIVE Queued(_, _)
Queued(out, recs) ==
    IF recs = <<>> \/ quiet THEN out
    ELSE Queued(Emit(out, fstat_join(Head(recs)), "record"), Tail(recs))

\* lines of stdout, one after the other
RECURSIVE EmitAll(_, _, _)
EmitAll(out, texts, origin) ==
    IF texts = <<>> THEN out
    ELSE EmitAll(Emit(out, Head(texts), origin), Tail(texts), origin)

\* lines 693-709: what the handler of P4Error writes for each error
P4ErrorLines(errlist) ==
    [i \in 1..Len(errlist) |->
        IF errlist[i].data = "clobber writable file"
        THEN <<"#", "o4pass", "-", "info", "#", "m">>
        ELSE PASS_DASH \o ERR \o <<"#", errlist[i].data>>]

\* line 709: an error other than 'clobber writable file'
NonRecoverable(errlist) ==
    \E i \in 1..Len(errlist) : errlist[i].data # "clobber writable file"

\* what p4 may answer in a run: it deals with files, fails or times out;
\* it has remarks on a file; it reports errors of every kind
ReplySets ==
    {{Reply("stat", "", "a", FALSE), Reply("stat", "", "b", FALSE),
      Reply("stat", "", "x", FALSE), Reply("stat", "", "a", TRUE),
      Reply("error", "text", "", FALSE),
      Reply("error", "Connection timed out", "", FALSE)},
     {Reply("stat", "", "b", FALSE),
      Reply("info", "Diff chunks: + 0 conflicting", "", FALSE),
      Reply("info", "Diff chunks: + 1 conflicting", "", FALSE),
      Reply("info", "can't move (already opened for edit)", "a", FALSE),
      Reply("info", "- resolve skipped", "a", FALSE),
      Reply("info", "text", "a", FALSE)},
     {Reply("stat", "", "b", FALSE),
      Reply("error", "file(s) up-to-date", "a", FALSE),
      Reply("error", "no file(s) at that changelist number", "a", FALSE),
      Reply("error", "clobber writable file", "a", FALSE),
      Reply("error", "text", "", FALSE),
      Reply("error", "", "", FALSE)}}
Replies == UNION ReplySets

pcall == <<n_asked, queued_prints, errs, repeats>>
phist == <<p4_in, p4_ret>>

\* lines 603-641: the next p4 call is started for the records left
PyforceCall ==
    /\ stage = "pyforce"
    /\ tpc = "p4"
    /\ fstats # <<>>
    /\ tpc' = "stream"
    /\ n_asked' = Len(fstats)
    /\ queued_prints' = <<>>
    /\ errs' = 0
    /\ repeats' = {}
    /\ p4_in' = <<>>
    /\ p4_ret' = <<>>
    /\ p4_end' = <<>>
    /\ p4_errors' = <<>>
    /\ UNCHANGED <<ec, stdin, stdout, have_list, fstats, retries, clobbers, p4_reads,
                   p4_timeouts,
                   StageFrame0>>

\* a timeout that costs no retry
Timeout_Free ==
    /\ retries' = retries
    /\ p4_timeouts' = p4_timeouts + 1
    /\ stdout' = Queued(stdout, queued_prints)
    /\ IF retries' = 0 THEN StageRaise ELSE tpc' = "p4" /\ UNCHANGED ec

\* lines 710-715 and the finally clause: P4TimeoutError
Timeout ==
    /\ retries' = retries - 1
    /\ p4_timeouts' = p4_timeouts + 1
    /\ stdout' = Queued(stdout, queued_prints)
    /\ IF retries' = 0 THEN StageRaise ELSE tpc' = "p4" /\ UNCHANGED ec

\* one result of p4: Pyforce.__next__ (o4_pyforce.py 58-97) and, if it is
\* returned, the body of the loop (o4.py 641-686)
PyforceRead(reply, moved) ==
    /\ stage = "pyforce"
    /\ tpc = "stream"
    /\ p4_reads < MaxReplies
    /\ reply \in p4_replies
    /\ p4_in' = Append(p4_in, reply)
    /\ p4_reads' = p4_reads + 1
    /\ LET n == Next1(reply)
           r == n[2]
           out == EmitAll(stdout, InfoLine(reply), "made")
           i == Match(fstats, r)
       IN  CASE n[1] = "timeout" ->
                  /\ Timeout
                  /\ p4_end' = <<"P4TimeoutError", "">>
                  /\ UNCHANGED <<fstats, pcall, p4_ret, p4_errors>>
             [] n[1] = "keep" ->
                  /\ p4_errors' = Append(p4_errors, r)
                  /\ UNCHANGED <<tpc, ec, stdout, fstats, retries, pcall, p4_ret, p4_end,
                               p4_timeouts>>
             [] n[1] = "return" ->
                  /\ p4_ret' = Append(p4_ret, r)
                  /\ UNCHANGED <<tpc, ec, retries, n_asked, p4_errors, p4_end, p4_timeouts>>
                  /\ IF (r.code = "info" /\ r.data \in DiffChunks) \/ r.flag
                     THEN stdout' = out /\ UNCHANGED <<fstats, queued_prints, errs, repeats>>
                     ELSE IF r.code = "error" \/ r.path = ""
                     THEN /\ errs' = errs + 1
                          /\ stdout' = out
                          /\ UNCHANGED <<fstats, queued_prints, repeats>>
                     ELSE IF i # 0
                     THEN /\ repeats' = repeats \cup {r.path}
                          /\ fstats' = Pop(fstats, i)
                          /\ queued_prints' = Queue(queued_prints, r, fstats[i])
                          /\ stdout' = Matched(out, r, fstats[i], moved)
                          /\ errs' = errs
                     ELSE /\ errs' = IF r.path \in repeats THEN errs ELSE errs + 1
                          /\ stdout' = out
                          /\ UNCHANGED <<fstats, queued_prints, repeats>>
    /\ UNCHANGED <<stdin, have_list, clobbers, StageFrame0>>

\* the stream of p4 ends: Pyforce.__next__ (o4_pyforce.py 98-113) and what
\* o4_pyforce does then (o4.py 687-731); err is what stderr holds
PyforceEOF(err) ==
    /\ stage = "pyforce"
    /\ tpc = "stream"
    /\ LET e == AtEOF(p4_errors, err)
       IN  /\ p4_end' = <<IF e[1] = "timeout" THEN "P4TimeoutError" ELSE e[1], err>>
           /\ CASE e[1] = "timeout" ->
                  /\ Timeout
                  /\ UNCHANGED <<clobbers, p4_errors>>
             [] e[1] = "P4Error" ->
                  /\ p4_errors' = e[2]
                  /\ stdout' = Queued(EmitAll(stdout, P4ErrorLines(e[2]), "made"),
                                      queued_prints)
                  /\ IF NonRecoverable(e[2]) THEN StageRaise /\ UNCHANGED clobbers
                     ELSE /\ clobbers < MaxClobbers
                          /\ clobbers' = clobbers + 1
                          /\ tpc' = "p4"
                          /\ UNCHANGED ec
                  /\ UNCHANGED <<retries, p4_timeouts>>
             [] e[1] = "StopIteration" ->
                  /\ stdout' = Queued(stdout, queued_prints)
                  /\ IF errs # 0 \/ n_asked = Len(fstats) THEN StageRaise
                     ELSE tpc' = "p4" /\ UNCHANGED ec
                  /\ UNCHANGED <<retries, clobbers, p4_errors, p4_timeouts>>
    /\ UNCHANGED <<stdin, have_list, fstats, pcall, phist, p4_reads, StageFrame0>>

\* o4_seed_from, lines 198-204: the seed's fstat file and directory are opened
SeedFromSetup(failed) ==
    /\ stage = "seed_from"
    /\ tpc = "setup"
    /\ IF failed THEN StageRaise
       ELSE tpc' = "loop" /\ UNCHANGED ec
    /\ UNCHANGED <<stdin, stdout, have_list, fstats, retries, clobbers, StageFrame>>

\* o4_seed_from, lines 205-235: one line; copied: the seed has the file with
\* this checksum, raised: the file in the way cannot be removed
SeedFromLine(copied, raised) ==
    /\ stage = "seed_from"
    /\ tpc = "loop"
    /\ stdin # <<>>
    /\ LET text == Head(stdin)
           f == fstat_split(text)
       IN  IF IsPass(text)
           THEN /\ stdout' = EmitRaw(stdout, text, "pass")
                /\ stdin' = Tail(stdin)
                /\ UNCHANGED <<tpc, ec>>
           ELSE IF Malformed(text) \/ (f # None /\ f[5] # <<>> /\ raised)
           THEN StageRaise /\ UNCHANGED <<stdin, stdout>>
           ELSE /\ stdout' = IF f = None \/ (f[5] # <<>> /\ copied) THEN stdout
                             ELSE EmitRaw(stdout, text, "record")
                /\ stdin' = Tail(stdin)
                /\ UNCHANGED <<tpc, ec>>
    /\ UNCHANGED <<have_list, fstats, retries, clobbers, StageFrame>>

\* the input is at its end: o4_pyforce goes on to p4, the other stages return
\* and main exits with 0 (line 1519)
StageEnd ==
    /\ tpc = "loop"
    /\ stdin = <<>>
    /\ IF stage = "pyforce" /\ fstats # <<>>
       THEN tpc' = "p4" /\ UNCHANGED ec
       ELSE tpc' = "exited" /\ Exit(0)
    /\ UNCHANGED <<stdin, stdout, have_list, fstats, retries, clobbers, StageFrame>>

\* o4_pyforce, line 603: no record is left
PyforceEnd ==
    /\ stage = "pyforce"
    /\ tpc = "p4"
    /\ fstats = <<>>
    /\ tpc' = "exited"
    /\ Exit(0)
    /\ UNCHANGED <<stdin, stdout, have_list, fstats, retries, clobbers, StageFrame>>

(***************************************************************************)
(* Part R: a record is printed by one command with fstat_join and read by  *)
(* the next with fstat_split (o4_fstat.py 73-103).  The path is given      *)
(* character by character.                                                 *)
(***************************************************************************)
\* print(fstat_join(f))
RoundTripJoin ==
    /\ r_f # None
    /\ r_line = None
    /\ r_line' = fstat_join(r_f)
    /\ UNCHANGED <<r_f, r_res, kvars, ovars, cvars, gvars, fvars, pvars>>

\* fstat_split(line)
RoundTripSplit ==
    /\ r_line # None
    /\ r_res = None
    /\ r_res' = fstat_split(r_line)
    /\ UNCHANGED <<r_f, r_line, kvars, ovars, cvars, gvars, fvars, pvars>>

(***************************************************************************)
(* Part K: lock_package and unlock_package (o4package.py 56-99) called by  *)
(* several processes for one depot path.  A caller opens the lock file     *)
(* (create_file), takes the lock on its first byte (filelock.__enter__,    *)
(* which blocks), runs the body, gives the lock back (filelock.__exit__)   *)
(* and only then leaves `with create_file(...) as f`, which closes f.  f   *)
(* is a buffered text file: what f.write hands it reaches the file when f  *)
(* is closed; f.truncate works on the file at once.                        *)
(***************************************************************************)
Callers == 1..MaxCallers

\* what is not of the lock file and its lock
kframe == <<rvars, ovars, cvars, gvars, fvars, pvars>>

\* time passes
Tick(d) ==
    /\ ticks < MaxTicks
    /\ ticks' = ticks + 1
    /\ clock' = clock + d
    /\ UNCHANGED <<packagelock, lockf, kpc, kop, k_now, k_buf, k_ret, k_calls, holders, kframe>>

\* lock_package, lines 78-80: now, and the file is opened
LockPackageOpen(c) ==
    /\ kpc[c] = "idle"
    /\ k_ret[c] # "True"
    /\ k_calls < MaxLockCalls
    /\ k_calls' = k_calls + 1
    /\ kpc' = [kpc EXCEPT ![c] = "open"]
    /\ kop' = [kop EXCEPT ![c] = "lock"]
    /\ k_now' = [k_now EXCEPT ![c] = clock]
    /\ k_ret' = [k_ret EXCEPT ![c] = "none"]
    /\ UNCHANGED <<clock, ticks, packagelock, lockf, k_buf, holders, kframe>>

\* unlock_package, lines 96-97, by a caller whose lock_package returned True
\* (get_archive, lines 173 and 202)
UnlockPackageOpen(c) ==
    /\ kpc[c] = "idle"
    /\ k_ret[c] = "True"
    /\ kpc' = [kpc EXCEPT ![c] = "open"]
    /\ kop' = [kop EXCEPT ![c] = "unlock"]
    /\ UNCHANGED <<clock, ticks, packagelock, lockf, k_now, k_buf, k_ret, k_calls, holders,
                   kframe>>

\* filelock.__enter__ (lines 66-68): os.lockf(F_LOCK) waits for the lock
FilelockEnter(c) ==
    /\ kpc[c] = "open"
    /\ lockf = 0
    /\ lockf' = c
    /\ kpc' = [kpc EXCEPT ![c] = "locked"]
    /\ UNCHANGED <<clock, ticks, packagelock, kop, k_now, k_buf, k_ret, k_calls, holders,
                   kframe>>

\* line 87: the lock is stale
StaleLock(t, locktime) == t - locktime > TIMEOUT

\* lock_package, lines 82-92, and filelock.__exit__ (lines 70-72) on the way
\* out of the return
LockPackageBody(c) ==
    /\ kpc[c] = "locked"
    /\ kop[c] = "lock"
    /\ IF packagelock = 0
       THEN /\ k_buf' = [k_buf EXCEPT ![c] = k_now[c]]
            /\ k_ret' = [k_ret EXCEPT ![c] = "True"]
            /\ UNCHANGED packagelock
       ELSE IF StaleLock(k_now[c], packagelock)
       THEN /\ packagelock' = 0
            /\ k_buf' = [k_buf EXCEPT ![c] = k_now[c]]
            /\ k_ret' = [k_ret EXCEPT ![c] = "True"]
       ELSE /\ k_ret' = [k_ret EXCEPT ![c] = "False"]
            /\ UNCHANGED <<packagelock, k_buf>>
    /\ lockf' = 0
    /\ kpc' = [kpc EXCEPT ![c] = "unlocked"]
    /\ UNCHANGED <<clock, ticks, kop, k_now, k_calls, holders, kframe>>

\* unlock_package, lines 98-99, and filelock.__exit__
UnlockPackageBody(c) ==
    /\ kpc[c] = "locked"
    /\ kop[c] = "unlock"
    /\ packagelock' = 0
    /\ holders' = <<>>
    /\ lockf' = 0
    /\ kpc' = [kpc EXCEPT ![c] = "unlocked"]
    /\ UNCHANGED <<clock, ticks, kop, k_now, k_buf, k_ret, k_calls, kframe>>

\* the end of `with create_file(...) as f`: f is closed, its buffer goes to
\* the file, and the function returns
CloseFile(c) ==
    /\ kpc[c] = "unlocked"
    /\ kpc' = [kpc EXCEPT ![c] = "idle"]
    /\ packagelock' = IF k_buf[c] # 0 THEN k_buf[c] ELSE packagelock
    /\ k_buf' = [k_buf EXCEPT ![c] = 0]
    /\ k_ret' = [k_ret EXCEPT ![c] = IF kop[c] = "unlock" THEN "none" ELSE @]
    /\ holders' = IF kop[c] = "lock" /\ k_ret[c] = "True"
                  THEN Append(holders, <<c, k_now[c]>>) ELSE holders
    /\ UNCHANGED <<clock, ticks, lockf, kop, k_now, k_calls, kframe>>

(***************************************************************************)
(* Part O: the command 'o4 fstat ...@cl [--changed prev] [-f] [--drop d]   *)
(* [--keep k]' (o4.py 317-415) on a depot.                                 *)
(***************************************************************************)
FstatCommand(cl, prev, f, drop, keep) ==
    /\ o_args = None
    /\ o_args' = [changelist |-> cl, previous_cl |-> prev, force |-> f,
                  drop |-> drop, keep |-> keep, quiet |-> FALSE]
    /\ printed' = o4_fstat(cl, prev, f, drop, keep)
    /\ o_iters' = o4_fstat_iters(cl, prev, f, drop, keep)
    /\ o_end' = "return"
    /\ UNCHANGED <<rvars, kvars, cvars, gvars, fvars, pvars>>

\* the command with -q (lines 317-330)
FstatQuiet(cl, prev, drop, keep) ==
    /\ o_args = None
    /\ o_args' = [changelist |-> cl, previous_cl |-> prev, force |-> FALSE,
                  drop |-> drop, keep |-> keep, quiet |-> TRUE]
    /\ printed' = QuietPrinted(cl, prev, drop, keep)
    /\ o_iters' = QuietIters(cl, prev, drop, keep)
    /\ o_end' = QuietEnd(cl, prev, drop, keep)
    /\ UNCHANGED <<rvars, kvars, cvars, gvars, fvars, pvars>>

(***************************************************************************)
(* Part C: prune_fstat_cache and prune_archive_cache (o4_fstat.py 203-262) *)
(* on the files of .o4.  .o4/changelist is the marker of part S; a marker  *)
(* that is missing or unreadable gives safe = None, which is Absent here.  *)
(***************************************************************************)
\* sorted(...) of changelists (line 216)
RECURSIVE SortedCLs(_)
SortedCLs(S) ==
    IF S = {} THEN <<>>
    ELSE LET low == CHOOSE x \in S : \A y \in S : x <= y
         IN  <<low>> \o SortedCLs(S \ {low})

\* cls[1::2] (line 218)
RECURSIVE EveryOther(_)
EveryOther_All(cls) == cls
EveryOther(cls) ==
    IF Len(cls) < 2 THEN <<>>
    ELSE <<cls[2]>> \o EveryOther(SubSeq(cls, 3, Len(cls)))

\* lines 217-225: the loop; fail: the files os.remove raises for
RECURSIVE PruneLoop(_, _, _, _, _)
PruneLoop(todo, safe, fail, kept, removed) ==
    IF todo = <<>> THEN <<kept, removed>>
    ELSE IF Head(todo) # safe /\ Head(todo) \notin fail
    THEN PruneLoop(Tail(todo), safe, fail, kept \ {Head(todo)}, removed + 1)
    ELSE PruneLoop(Tail(todo), safe, fail, kept, removed)

\* prune_fstat_cache: the files left and the count returned
prune_fstat_cache(kept, safe, fail) ==
    PruneLoop(EveryOther(SortedCLs(kept)), safe, fail, kept, 0)

\* the order of sorted(..., reverse=True) on (age, cl, path) (line 246)
OlderFirst(a, b) == a[1] > b[1] \/ (a[1] = b[1] /\ a[2] > b[2])

\* lines 243-246: the archives that are not of the safe changelist, sorted
RECURSIVE SortedArchives(_)
SortedArchives(S) ==
    IF S = {} THEN <<>>
    ELSE LET top == CHOOSE a \in S : \A b \in S \ {a} : OlderFirst(a, b)
         IN  <<top>> \o SortedArchives(S \ {top})

\* line 250
TooOld(age) == age > DAY

\* lines 248-254: the archives older than a day are removed
RECURSIVE RemoveOld(_, _, _, _)
RemoveOld(todo, fail, kept, removed) ==
    IF todo = <<>> THEN <<kept, removed>>
    ELSE IF TooOld(Head(todo)[1]) /\ Head(todo) \notin fail
    THEN RemoveOld(Tail(todo), fail, kept \ {Head(todo)}, removed + 1)
    ELSE RemoveOld(Tail(todo), fail, kept, removed)

\* lines 256-261: the loop that runs when nothing was removed
RECURSIVE RemoveAny(_, _, _, _)
RemoveAny(todo, fail, kept, removed) ==
    IF todo = <<>> THEN <<kept, removed>>
    ELSE IF Head(todo) \notin fail
    THEN RemoveAny(Tail(todo), fail, kept \ {Head(todo)}, removed + 1)
    ELSE RemoveAny(Tail(todo), fail, kept, removed)

\* prune_archive_cache: the archives left and the count returned
prune_archive_cache(kept, safe, fail) ==
    LET archives == SortedArchives({a \in kept : a[2] # safe})
        old == RemoveOld(archives, fail, kept, 0)
    IN  IF old[2] # 0 THEN old ELSE RemoveAny(archives, fail, kept, 0)

\* a call of prune_fstat_cache
PruneFstatCache ==
    /\ c_ret = None
    /\ LET r == prune_fstat_cache(c_files, changelist_file, c_fail)
       IN  c_files' = r[1] /\ c_ret' = <<r[2]>>
    /\ UNCHANGED <<c_fail, a_files, a_fail, a_ret, rvars, kvars, ovars, gvars, fvars, pvars>>

\* a call of prune_archive_cache
PruneArchiveCache ==
    /\ a_ret = None
    /\ LET r == prune_archive_cache(a_files, changelist_file, a_fail)
       IN  a_files' = r[1] /\ a_ret' = <<r[2]>>
    /\ UNCHANGED <<c_files, c_fail, c_ret, a_fail, rvars, kvars, ovars, gvars, fvars, pvars>>

(***************************************************************************)
(* Initial states and specifications.                                      *)
(***************************************************************************)
InitG(reads, outs, sizes, limits) ==
    /\ round_robin \in BOOLEAN
    /\ max_procs \in 1..MaxProcs
    /\ max_bytes \in limits
    /\ chunk_size \in sizes
    /\ gpc = "read"
    /\ reads_left = reads
    /\ stdin_short = FALSE
    /\ b_in = 0
    /\ chunk = <<>>
    /\ buf = <<>>
    /\ p = 0
    /\ p_open = <<>>
    /\ p_filled = <<>>
    /\ res = <<>>
    /\ res_child = <<>>
    /\ recv = <<>>
    /\ not_done = <<0, 1>>
    /\ sel_t = FALSE
    /\ exit_status = None
    /\ p_n = <<>>
    /\ p_stdin = <<>>
    /\ stdin_closed = <<>>
    /\ os_status = <<>>
    /\ returncode = <<>>
    /\ pipe = <<>>
    /\ out_left = outs
    /\ sink_pc = "none"
    /\ selector = {}
    /\ fbuf = <<>>
    /\ trg = [s \in Streams |-> <<>>]

MainRun ==
    \/ \E c \in SeqsUpTo(Chars, chunk_size) : ReadNoNewline(c)
    \/ \E c \in SeqsUpTo(Chars, chunk_size) : ReadReuse(c)
    \/ \E c \in SeqsUpTo(Chars, chunk_size) : ReadSpawn(c)
    \/ WriteChunk
    \/ Reap
    \/ ReadEOF
    \/ Wait
    \/ Finish
    \/ Join
    \/ MainExit

MainNext ==
    \/ MainRun
    \/ Interrupt
    \/ InterruptLate

\* lines 126-141 with silent children, once every child has been reaped: one
\* select() finds every registered pipe at end of file, and the loop's body
\* unregisters them all.  (Before that the sink's steps are unregistrations
\* too; they commute with every step of the main thread but the pop of
\* not_done, and are left to this one round.)
SinkDrain ==
    /\ gpc = "join"
    /\ sink_pc = "select"
    /\ selector # {}
    /\ \A f \in selector :
          pipe[f[1]][f[2]] = <<>> /\ fbuf[f[1]][f[2]] = <<>> /\ returncode[f[1]] # None
    /\ selector' = {}
    /\ sink_pc' = IF SinkGoesOn(not_done, selector') THEN "select" ELSE "stopped"
    /\ UNCHANGED <<gparams, gmain, gchildren, fbuf, trg>>
    /\ UNCHANGED <<fvars, pvars, xvars>>

NextDistribute ==
    \/ MainNext
    \/ \E c \in Spawned, code \in ExitCodes : ChildExit(c, code)
    \/ SinkDrain

\* every interleaving of main thread, children and sink thread in a run that
\* is not interrupted
NextSink ==
    \/ MainRun
    \/ \E c \in Spawned, code \in ExitCodes : ChildExit(c, code)
    \/ \E c \in Spawned, s \in Streams, ch \in Chars : ChildOutput(c, s, ch)
    \/ \E c \in Spawned, s \in Streams : SinkData(c, s)
    \/ \E c \in Spawned, s \in Streams : SinkEOF(c, s)

\* no call of fstat_iter is made
IdleF ==
    /\ depot = [c \in CLs |-> {}]
    /\ fstat_server = FALSE
    /\ tracing = FALSE
    /\ cache_dir = [c \in {} |-> <<>>]
    /\ runs = 0
    /\ fpc = "idle"
    /\ exc = "none"
    /\ NoCall

\* a new workspace, no call of o4_sync
IdleS ==
    /\ changelist_file = Absent
    /\ incomplete_file = FALSE
    /\ local = [q \in Paths |-> 0]
    /\ have = [q \in Paths |-> 0]
    /\ syncs = 0
    /\ spc = "idle"
    /\ s_exit = "none"
    /\ s_changelist = 0
    /\ force = FALSE
    /\ quick = FALSE
    /\ seed = FALSE
    /\ previous_cl = 0
    /\ has_open = {}
    /\ actual_cl = 0
    /\ did = {}
    /\ again = FALSE

\* no record is on its way
IdleR ==
    /\ r_f = None
    /\ r_line = None
    /\ r_res = None

\* nobody calls lock_package; there is no lock file
IdleK ==
    /\ clock = 1
    /\ ticks = 0
    /\ packagelock = 0
    /\ lockf = 0
    /\ kpc = [c \in {} |-> "idle"]
    /\ kop = [c \in {} |-> "lock"]
    /\ k_now = [c \in {} |-> 0]
    /\ k_buf = [c \in {} |-> 0]
    /\ k_ret = [c \in {} |-> "none"]
    /\ k_calls = 0
    /\ holders = <<>>

\* o4 fstat has not run
IdleO ==
    /\ o_args = None
    /\ printed = <<>>
    /\ o_iters = <<>>
    /\ o_end = "none"

\* nothing is pruned
IdleC ==
    /\ c_files = {}
    /\ c_fail = {}
    /\ c_ret = None
    /\ a_files = {}
    /\ a_fail = {}
    /\ a_ret = None

\* the parts outside the commands are at rest
IdleX ==
    /\ IdleR
    /\ IdleK
    /\ IdleO
    /\ IdleC

\* no p4 call of o4_pyforce
IdleP ==
    /\ n_asked = 0
    /\ queued_prints = <<>>
    /\ errs = 0
    /\ repeats = {}
    /\ p4_errors = <<>>
    /\ p4_in = <<>>
    /\ p4_reads = 0
    /\ p4_timeouts = 0
    /\ p4_ret = <<>>
    /\ p4_end = <<>>

\* no command reads fstat lines
IdleQ ==
    /\ stdin = <<>>
    /\ input = <<>>
    /\ ec = None
    /\ lpc = "idle"
    /\ files = <<>>
    /\ n_files = 0
    /\ infos = <<>>
    /\ warnings = <<>>
    /\ errors = <<>>
    /\ stage = "none"
    /\ filtertype = "keep"
    /\ funcs = <<>>
    /\ fs = NoFs
    /\ p4_replies = {}
    /\ verbose = FALSE
    /\ quiet = FALSE
    /\ tpc = "idle"
    /\ stdout = <<>>
    /\ have_list = None
    /\ fstats = <<>>
    /\ retries = 3
    /\ clobbers = 0
    /\ IdleP

\* distribute is not run
IdleG ==
    /\ InitG(0, 0, {1}, {1})
    /\ round_robin = FALSE
    /\ max_procs = 1

\* a depot with any history, an empty cache directory
InitF(trace) ==
    /\ depot \in [CLs -> SUBSET Paths]
    /\ fstat_server \in BOOLEAN
    /\ tracing = trace
    /\ cache_dir = [c \in {} |-> <<>>]
    /\ runs = 0
    /\ fpc = "idle"
    /\ exc = "none"
    /\ NoCall

\* the calls of o4.py (lines 328-381) ask for the changes after an older
\* changelist: from_changelist < to_changelist
NextFstat ==
    \/ \E to \in CLs : \E from \in 0..(to - 1) : Start(to, from)
    \/ DirectLine
    \/ DirectReturn
    \/ Server1OK
    \/ \E e_cl \in CLs : Server1Redirect(e_cl)
    \/ Server1Error
    \/ Server1Line
    \/ Server1End
    \/ PerforceBegin
    \/ P4Attempt
    \/ P4GiveUp
    \/ \E f \in p4_left : P4Record(f)
    \/ P4Break
    \/ P4Timeout
    \/ P4TooManyRows
    \/ P4RequestTooLarge
    \/ P4NoSuchFile
    \/ PerforceRows
    \/ Server2OK
    \/ Server2Line
    \/ Server2End
    \/ LocalBegin
    \/ CacheLine
    \/ CacheEnd
    \/ Close
    \/ Rename
    \/ Done
    \/ Raise
    \/ Abandon

\* distribute with silent children
InitDistribute == InitG(MaxChunks, 0, ChunkSizes, 1..MaxBytes) /\ IdleF /\ IdleS /\ IdleQ /\ IdleX
SpecDistribute == InitDistribute /\ [][NextDistribute]_vars

\* distribute with children that write output, on a short input of lines, one
\* line to a child
InitSink == InitG(MaxSinkChunks, MaxOut, {1}, 1..MaxBytes) /\ IdleF /\ IdleS /\ IdleQ /\ IdleX
SpecSink == InitSink /\ [][NextSink]_vars

\* calls of fstat_iter, one after the other, on one cache directory
InitFstat == IdleG /\ InitF(FALSE) /\ IdleS /\ IdleQ /\ IdleX
SpecFstat == InitFstat /\ [][NextFstat]_vars

\* the same calls, with the history of the lines they yield, and with the
\* fstat server configured: a call without it takes the steps of a call whose
\* server answers with an error (lines 317, 342-343)
InitFstatTrace == IdleG /\ InitF(TRUE) /\ fstat_server /\ IdleS /\ IdleQ /\ IdleX
SpecFstatTrace == InitFstatTrace /\ [][NextFstat]_vars

\* the files that p4 opened may report
OpenPaths == {"a"}

NextSync ==
    \/ \E cl \in CLs, f, q, s \in BOOLEAN : SyncStart(cl, f, q, s)
    \/ NotVanilla
    \/ Remove
    \/ \E open \in SUBSET OpenPaths, skip_opened \in BOOLEAN : Opened(open, skip_opened)
    \/ \E ok \in BOOLEAN : OpenPipeline(ok)
    \/ \E copied, fixed \in SUBSET Paths, ok \in BOOLEAN : Sync1(copied, fixed, ok)
    \/ Flush
    \/ \E copied, fixed \in SUBSET Paths, ok \in BOOLEAN : Sync2(copied, fixed, ok)
    \/ Publish
    \/ \E fixed \in SUBSET Paths, ok \in BOOLEAN : Verify(fixed, ok)
    \/ SyncDone
    \/ SyncRaise

\* calls of o4_sync, one after the other, on a new workspace of a depot with
\* one path and a head change (main, lines 1559-1561)
InitSync ==
    /\ IdleG
    /\ depot \in [CLs -> {{}, {"a"}}] \ {[c \in CLs |-> {}]}
    /\ fstat_server = FALSE
    /\ tracing = FALSE
    /\ cache_dir = [c \in {} |-> <<>>]
    /\ runs = 0
    /\ fpc = "idle"
    /\ exc = "none"
    /\ NoCall
    /\ IdleS
    /\ IdleX
    /\ IdleQ
SpecSync == InitSync /\ [][NextSync]_vars

NextFail ==
    \/ FailLine
    \/ FailMalformed
    \/ FailEnd

\* o4 fail on any input of MaxLines lines at most
InitFail ==
    /\ IdleG
    /\ IdleF
    /\ IdleS
    /\ IdleX
    /\ stdin \in Inputs
    /\ input = stdin
    /\ ec = None
    /\ lpc = "loop"
    /\ files = <<>>
    /\ n_files = 0
    /\ infos = <<>>
    /\ warnings = <<>>
    /\ errors = <<>>
    /\ stage = "none"
    /\ filtertype = "keep"
    /\ funcs = <<>>
    /\ fs = NoFs
    /\ p4_replies = {}
    /\ verbose = FALSE
    /\ quiet = FALSE
    /\ tpc = "idle"
    /\ stdout = <<>>
    /\ have_list = None
    /\ fstats = <<>>
    /\ retries = 3
    /\ clobbers = 0
    /\ IdleP
SpecFail == InitFail /\ [][NextFail]_vars

\* the paths 'p4 have' may list
\* the options that matter to a stage: <<stage, funcs, verbose, quiet>>; the
\* filter is 'keep --checksum' or has no predicate
StageConfs ==
    ({"filter"} \X {<<>>, <<<<"checksum", FALSE>>>>} \X BOOLEAN \X {FALSE})
    \cup ({"drop_have", "seed_from"} \X {<<>>} \X {FALSE} \X {FALSE})
    \cup ({"pyforce"} \X {<<>>} \X {FALSE} \X BOOLEAN)

\* what p4 may answer to a stage: it deals with a file, fails or times out
StageReplies ==
    {Reply("stat", "", "a", FALSE), Reply("stat", "", "b", FALSE),
     Reply("error", "clobber writable file", "a", FALSE),
     Reply("error", "text", "", FALSE),
     Reply("error", "Connection timed out", "", FALSE)}

\* what 'keep --checksum' may find: every file is there and has the checksum
\* of its record, or not
StageFs == {[NoFs EXCEPT !.kind = [q \in HavePaths |-> "file"], !.same = b] : b \in BOOLEAN}

NextStage ==
    \/ FilterSetup
    \/ \E raised \in BOOLEAN : FilterLine(raised)
    \/ \E listing \in SUBSET HaveEntries, failed \in BOOLEAN : DropHaveLine(listing, failed)
    \/ \E accurate \in BOOLEAN : PyforceLine(accurate)
    \/ PyforceCall
    \/ \E reply \in Replies, moved \in BOOLEAN : PyforceRead(reply, moved)
    \/ \E err \in {"", "text", "timed out"} : PyforceEOF(err)
    \/ \E failed \in BOOLEAN : SeedFromSetup(failed)
    \/ \E copied, raised \in BOOLEAN : SeedFromLine(copied, raised)
    \/ StageEnd
    \/ PyforceEnd

\* a stage on any input of MaxLines lines at most
InitStage ==
    /\ IdleG
    /\ IdleF
    /\ IdleS
    /\ IdleX
    /\ stdin \in Inputs
    /\ input = stdin
    /\ ec = None
    /\ lpc = "idle"
    /\ files = <<>>
    /\ n_files = 0
    /\ infos = <<>>
    /\ warnings = <<>>
    /\ errors = <<>>
    /\ \E c \in StageConfs :
          /\ stage = c[1]
          /\ funcs = c[2]
          /\ verbose = c[3]
          /\ quiet = c[4]
    /\ filtertype = "keep"
    /\ fs \in IF funcs # <<>> THEN StageFs ELSE {NoFs}
    /\ p4_replies = IF stage = "pyforce" THEN StageReplies ELSE {}
    /\ tpc = IF stage \in {"filter", "seed_from"} THEN "setup" ELSE "loop"
    /\ stdout = <<>>
    /\ have_list = None
    /\ fstats = <<>>
    /\ retries = 3
    /\ clobbers = 0
    /\ IdleP
SpecStage == InitStage /\ [][NextStage]_vars

\* the elements of a set of numbers, going up
RECURSIVE Ascending(_)
Ascending(S) ==
    IF S = {} THEN <<>>
    ELSE LET m == CHOOSE x \in S : \A y \in S : x <= y
         IN  <<m>> \o Ascending(S \ {m})

\* the lists funcs that main can make (lines 1487-1499) with MaxFuncs options
\* at most: a predicate or its opposite, in the order of main; --deleted has
\* no opposite
FilterLists ==
    UNION {{[i \in 1..Cardinality(S) |->
                <<FNames[Ascending(S)[i]], inv[Ascending(S)[i]]>>] :
            inv \in {g \in [S -> BOOLEAN] : 6 \in S => ~g[6]}} :
           S \in {T \in SUBSET (1..Len(FNames)) : Cardinality(T) <= MaxFuncs}}

\* what the predicates may find
FilterFs ==
    [kind : [HavePaths -> Kinds], same : BOOLEAN, accurate : BOOLEAN,
     opened : {{}, HavePaths}, named : {{}, HavePaths}]

\* o4_filter on one record
NextFilter ==
    \/ FilterSetup
    \/ \E raised \in BOOLEAN : FilterLine(raised)
    \/ StageEnd

InitFilter ==
    /\ IdleG
    /\ IdleF
    /\ IdleS
    /\ IdleX
    /\ stdin \in {<<<<"1", ",", "a", ",", "1", ",", "9", ",", "C", NL>>>>,
                  <<<<"2", ",", "b", ",", "2", ",", "0", ",", NL>>>>}
    /\ input = stdin
    /\ ec = None
    /\ lpc = "idle"
    /\ files = <<>>
    /\ n_files = 0
    /\ infos = <<>>
    /\ warnings = <<>>
    /\ errors = <<>>
    /\ stage = "filter"
    /\ filtertype \in {"drop", "keep", "keep-any"}
    /\ funcs \in FilterLists
    /\ fs \in FilterFs
    /\ p4_replies = {}
    /\ verbose = FALSE
    /\ quiet = FALSE
    /\ tpc = "setup"
    /\ stdout = <<>>
    /\ have_list = None
    /\ fstats = <<>>
    /\ retries = 3
    /\ clobbers = 0
    /\ IdleP
SpecFilter == InitFilter /\ [][NextFilter]_vars

\* o4_pyforce on records, with every answer of p4
NextPyforce ==
    \/ \E accurate \in BOOLEAN : PyforceLine(accurate)
    \/ StageEnd
    \/ PyforceCall
    \/ \E reply \in Replies, moved \in BOOLEAN : PyforceRead(reply, moved)
    \/ \E err \in {"", "text", "timed out"} : PyforceEOF(err)
    \/ PyforceEnd

InitPyforce ==
    /\ IdleG
    /\ IdleF
    /\ IdleS
    /\ IdleX
    /\ stdin \in SeqsUpTo({<<"1", ",", "a", ",", "1", ",", "9", ",", "C", NL>>,
                            <<"2", ",", "b", ",", "2", ",", "0", ",", NL>>}, MaxLines)
    /\ input = stdin
    /\ ec = None
    /\ lpc = "idle"
    /\ files = <<>>
    /\ n_files = 0
    /\ infos = <<>>
    /\ warnings = <<>>
    /\ errors = <<>>
    /\ stage = "pyforce"
    /\ filtertype = "keep"
    /\ funcs = <<>>
    /\ fs = NoFs
    /\ p4_replies \in ReplySets
    /\ verbose = FALSE
    /\ quiet \in BOOLEAN
    /\ tpc = "loop"
    /\ stdout = <<>>
    /\ have_list = None
    /\ fstats = <<>>
    /\ retries = 3
    /\ clobbers = 0
    /\ IdleP
SpecPyforce == InitPyforce /\ [][NextPyforce]_vars

\* a record with any path of ',', ';', '.' and a letter, with and without
\* checksum, is joined and split again
PathChars == {",", ";", ".", "a"}

NextRoundTrip ==
    \/ RoundTripJoin
    \/ RoundTripSplit

InitRoundTrip ==
    /\ IdleG
    /\ IdleF
    /\ IdleS
    /\ IdleQ
    /\ IdleK
    /\ IdleO
    /\ IdleC
    /\ r_f \in {<<<<"1">>, path, <<"1">>, <<"9">>, sum>> :
                    path \in SeqsUpTo(PathChars, MaxPath), sum \in {<<>>, <<"C">>}}
    /\ r_line = None
    /\ r_res = None
SpecRoundTrip == InitRoundTrip /\ [][NextRoundTrip]_vars

\* callers of lock_package on a depot path whose lock file is empty or holds
\* the time of an earlier call
NextPackage ==
    \/ \E d \in {1, TIMEOUT} : Tick(d)
    \/ \E c \in Callers : LockPackageOpen(c)
    \/ \E c \in Callers : UnlockPackageOpen(c)
    \/ \E c \in Callers : FilelockEnter(c)
    \/ \E c \in Callers : LockPackageBody(c)
    \/ \E c \in Callers : UnlockPackageBody(c)
    \/ \E c \in Callers : CloseFile(c)

InitPackage ==
    /\ IdleG
    /\ IdleF
    /\ IdleS
    /\ IdleQ
    /\ IdleR
    /\ IdleO
    /\ IdleC
    /\ clock = 1
    /\ ticks = 0
    /\ packagelock = 0
    /\ lockf = 0
    /\ kpc = [c \in Callers |-> "idle"]
    /\ kop = [c \in Callers |-> "lock"]
    /\ k_now = [c \in Callers |-> 0]
    /\ k_buf = [c \in Callers |-> 0]
    /\ k_ret = [c \in Callers |-> "none"]
    /\ k_calls = 0
    /\ holders = <<>>
SpecPackage == InitPackage /\ [][NextPackage]_vars

\* the lists a drop or keep file may hold
Lists == {None} \cup {<<S>> : S \in SUBSET Paths}

\* o4 fstat with any arguments on a depot with any history
NextFstatCommand ==
    \/ \E cl \in CLs, prev \in 0..MaxCL, f \in BOOLEAN, drop, keep \in Lists :
           FstatCommand(cl, prev, f, drop, keep)
    \/ \E cl \in CLs, prev \in 0..MaxCL, drop, keep \in {None, <<{"a"}>>} :
           FstatQuiet(cl, prev, drop, keep)

InitFstatCommand ==
    /\ IdleG
    /\ depot \in [CLs -> SUBSET Paths]
    /\ fstat_server = FALSE
    /\ tracing = FALSE
    /\ cache_dir = [c \in {} |-> <<>>]
    /\ runs = 0
    /\ fpc = "idle"
    /\ exc = "none"
    /\ NoCall
    /\ IdleS
    /\ IdleQ
    /\ IdleR
    /\ IdleK
    /\ IdleO
    /\ IdleC
SpecFstatCommand == InitFstatCommand /\ [][NextFstatCommand]_vars

\* the changelists of the cache files, the ages and changelists of the archives
CacheCLs == 1..MaxCacheCL
Ages == {1, DAY, DAY + 1}
ArchiveCLs == {1, 2}

\* the workspace of part S with any marker, and no call of o4_sync
Workspace(markers) ==
    /\ changelist_file \in {Absent} \cup markers
    /\ incomplete_file = FALSE
    /\ local = [q \in Paths |-> 0]
    /\ have = [q \in Paths |-> 0]
    /\ syncs = 0
    /\ spc = "idle"
    /\ s_exit = "none"
    /\ s_changelist = 0
    /\ force = FALSE
    /\ quick = FALSE
    /\ seed = FALSE
    /\ previous_cl = 0
    /\ has_open = {}
    /\ actual_cl = 0
    /\ did = {}
    /\ again = FALSE

\* prune_fstat_cache on any set of cache files, with any marker
NextPruneFstat == PruneFstatCache
InitPruneFstat ==
    /\ IdleG
    /\ IdleF
    /\ Workspace(CacheCLs)
    /\ IdleQ
    /\ IdleR
    /\ IdleK
    /\ IdleO
    /\ c_files \in SUBSET CacheCLs
    /\ c_fail \in SUBSET c_files
    /\ c_ret = None
    /\ a_files = {}
    /\ a_fail = {}
    /\ a_ret = None
SpecPruneFstat == InitPruneFstat /\ [][NextPruneFstat]_vars

\* prune_archive_cache on any set of archives, with any marker
NextPruneArchive == PruneArchiveCache
InitPruneArchive ==
    /\ IdleG
    /\ IdleF
    /\ Workspace(ArchiveCLs)
    /\ IdleQ
    /\ IdleR
    /\ IdleK
    /\ IdleO
    /\ a_files \in SUBSET (Ages \X ArchiveCLs)
    /\ a_fail \in SUBSET a_files
    /\ a_ret = None
    /\ c_files = {}
    /\ c_fail = {}
    /\ c_ret = None
SpecPruneArchive == InitPruneArchive /\ [][NextPruneArchive]_vars


(***************************************************************************)
(* Part G: the claims.                                                     *)
(***************************************************************************)
Unreaped == {c \in Spawned : returncode[c] = None}
OpenChildren == {c \in Spawned : ~stdin_closed[c]}
LastRecv(c) ==
    IF c \in Range(recv)
    THEN CHOOSE k \in 1..Len(recv) : recv[k] = c /\ \A j \in (k + 1)..Len(recv) : recv[j] # c
    ELSE 0
RECURSIVE Concat(_)
Concat(ss) == IF ss = <<>> THEN <<>> ELSE Head(ss) \o Concat(Tail(ss))

\* C1: on the stage's stdout and on its stderr, a character that does not end
\* a line is followed by a character of the same child: no line holds output
\* of two children.
C1_LineIntegrity ==
    \A s \in Streams : \A k \in 1..(Len(trg[s]) - 1) :
        trg[s][k][2] # NL => trg[s][k + 1][1] = trg[s][k][1]

\* C2: when distribute has returned, every position of stdin that was read
\* has been written to exactly one child, exactly once.
C2_InputConservation ==
    gpc = "done" =>
        \A pos \in 1..b_in :
            Cardinality({ck \in Spawned \X (1..b_in) :
                            ck[2] <= Len(p_stdin[ck[1]]) /\ p_stdin[ck[1]][ck[2]] = pos}) = 1

\* C3: the children spawned and not yet reaped are at most max_procs.
C3_PoolBound == Cardinality(Unreaped) <= max_procs

\* C3: the pool is at its limit after a child was reaped and another spawned.
C3_Witness ==
    /\ Len(os_status) > max_procs
    /\ Cardinality(Unreaped) = max_procs
    /\ gpc = "write"

\* C4: no child is given more than max_bytes characters, and a child whose
\* stdin is closed is not one a write can go to.
C4_InputLimit ==
    /\ \A c \in Spawned : Len(p_stdin[c]) <= max_bytes
    /\ \A c \in Spawned :
          stdin_closed[c] =>
              /\ ~(gpc = "write" /\ p = c)
              /\ ~(gpc = "read" /\ c \in Range(p_open))

\* C5: when distribute re-raises the interrupt, no child that was spawned and
\* not reaped is still running.
C5_Cancellation ==
    gpc = "raised" => \A c \in Unreaped : os_status[c] # None

\* C6: after a normal return res holds the code of every spawned child once,
\* and main's exit status is an error iff a child's code is nonzero.
C6_ExitCodes ==
    /\ gpc \in {"done", "exit"} =>
          /\ Len(res) = Len(os_status)
          /\ Range(res_child) = Spawned
          /\ \A k \in 1..Len(res) : <<res[k]>> = os_status[res_child[k]]
    /\ gpc = "exit" =>
          /\ exit_status \in {<<0>>, <<1>>}
          /\ exit_status = <<1>> <=> \E c \in Spawned : os_status[c] # <<0>>

\* C6: main has exited with an error after children were reaped both while
\* waiting for a free slot and at the end.
C6_Witness ==
    /\ gpc = "exit"
    /\ exit_status = <<1>>
    /\ Len(os_status) > max_procs
    /\ \E c \in Spawned : os_status[c] = <<0>>

\* C7: in gatling mode at most one child has an open stdin, a child is only
\* spawned when all earlier ones are closed, and after a normal return the
\* children's inputs in spawn order make up the input.
C7_GatlingMode ==
    ~round_robin =>
        /\ Cardinality(OpenChildren) <= 1
        /\ \A c \in Spawned : c < Len(os_status) => stdin_closed[c]
        /\ gpc = "done" => Concat(p_stdin) = Positions(0, b_in)

\* C8, the choice of the child: in manifold mode a chunk with a newline starts
\* a child while fewer than max_procs are unreaped, and else goes to the open
\* child that received a chunk least recently.
C8_Choice ==
    (round_robin /\ gpc = "read" /\ gpc' = "write") =>
        IF Cardinality(Unreaped) < max_procs
        THEN /\ Len(os_status') = Len(os_status) + 1
             /\ p' = Len(os_status')
        ELSE /\ os_status' = os_status
             /\ p' \in OpenChildren
             /\ \A d \in OpenChildren : LastRecv(p') <= LastRecv(d)

\* C8, the turns: between two chunks of one child, every other child that was
\* open all the while received a chunk.
C8_Turns ==
    \A i, j \in 1..Len(recv) :
        (i < j /\ recv[i] = recv[j]) =>
            \A d \in Spawned \ {recv[i]} :
                ((\E a \in 1..(i - 1) : recv[a] = d)
                    /\ (LastRecv(d) > j \/ ~Filled(p_n[d])))
                => \E k \in (i + 1)..(j - 1) : recv[k] = d

\* C8: manifold mode is round robin.
C8_RoundRobin == [](round_robin => C8_Turns) /\ [][C8_Choice]_vars

\* C8: a child got its second chunk after another open child had its turn.
C8_Witness ==
    /\ round_robin
    /\ Len(recv) >= 3
    /\ recv[1] = recv[3]
    /\ recv[2] # recv[1]
    /\ ~stdin_closed[recv[2]]

(***************************************************************************)
(* Part F: the claims.                                                     *)
(***************************************************************************)
\* a call of fstat_iter ends with this step
CallEnds == fpc # "idle" /\ fpc' = "idle"

\* C9, first part: a cache file appears or is replaced only by the rename of
\* the closed temp file, once every source has been read to its end; the
\* rename puts the temp file's lines under <highest_written_cl>.fstat.gz and
\* touches no other cache file.
C9_OnlyRename ==
    cache_dir' # cache_dir =>
        /\ fpc = "rename"
        /\ temp_exists /\ ~fout_open
        /\ lines = <<>> /\ p4_left = {}
        /\ ~temp_exists'
        /\ DOMAIN cache_dir' = DOMAIN cache_dir \cup {highest_written_cl}
        /\ cache_dir'[highest_written_cl] = fout
        /\ \A c \in DOMAIN cache_dir \ {highest_written_cl} : cache_dir'[c] = cache_dir[c]

\* C9, second part: a call that ends with a return, an exception, a sys.exit
\* or a GeneratorExit still had its temp file (it was never renamed), and its
\* last step unlinks the temp file and leaves the cache directory alone.
C9_OtherEnds ==
    (CallEnds /\ exc' # "done") =>
        /\ temp_exists
        /\ ~temp_exists'
        /\ cache_dir' = cache_dir

\* C9, third part: after a call no temp file is left and fout is closed.
C9_NoTempLeft == fpc = "idle" => ~temp_exists /\ ~fout_open

\* C9: atomic cache publish: in every execution of fstat_iter a cache file
\* appears or is replaced only through the single rename after all source
\* phases finished and the temp file was closed; in every other execution no
\* cache file is created or changed, and the temp file is unlinked.
C9_AtomicPublish == []C9_NoTempLeft /\ [][C9_OnlyRename /\ C9_OtherEnds]_vars

\* C9: a call has ended with an exception, a sys.exit or a GeneratorExit in a
\* cache directory that holds a file published by an earlier call.
C9_Witness ==
    /\ fpc = "idle"
    /\ exc \in {"exception", "exit", "abandon"}
    /\ DOMAIN cache_dir # {}

OnePerPath(file) == \A i, j \in 1..Len(file) : file[i][2] = file[j][2] => i = j

C11_OutputRange ==
    \A y \in yielded : from_changelist < y[1] /\ y[1] <= to_changelist

\* the place of a source in [remote service, Perforce, remote service second
\* pass, local cache]; the steps after the last source come fifth
SourceRank(at) ==
    CASE at \in {"request", "server1"} -> 1
      [] at \in {"perforce", "retry", "p4", "rows"} -> 2
      [] at \in {"request2", "server2"} -> 3
      [] at \in {"local", "cache", "direct"} -> 4
      [] OTHER -> 5

\* C12, the sources: within a call fstat_iter never goes back to an earlier
\* source.
C12_Forward ==
    (fpc # "idle" /\ fpc' # "idle") => SourceRank(fpc) <= SourceRank(fpc')

\* C12, the records: a record yielded from a later source has a lower
\* changelist than every record yielded from an earlier source.
C12_Descending ==
    \A y, z \in yielded : SourceRank(y[3]) < SourceRank(z[3]) => z[1] < y[1]

Descending(file) ==
    \A i, j \in 1..Len(file) :
        (i < j /\ file[i][1] # 0 /\ file[j][1] # 0) => file[i][1] >= file[j][1]

C14_Nearest == fpc = "renamed" => get_fstat_cache(to_changelist) = to_changelist


(***************************************************************************)
(* Part S: the claims.                                                     *)
(***************************************************************************)
\* C15, first half: a call that finds the target changelist in .o4/changelist
\* and is not forced returns at once: it has neither removed nor written the
\* file, asked for the opened files, run a pipeline or started a p4 sync.
C15_EarlyExit ==
    (previous_cl # 0 /\ previous_cl = s_changelist /\ ~force)
        => (s_exit = "return" /\ did = {} /\ changelist_file = s_changelist)

\* C15, second half: a call with the arguments of the call before, which
\* ended well, starts no p4 sync (force not set).
C15_NoSyncAgain == (again /\ ~force) => "p4sync" \notin did

\* C15: Sync early exit leaves everything unchanged, and consequently a second
\* identical sync after a successful one performs no p4 sync calls.
C15_Idempotent == C15_EarlyExit /\ C15_NoSyncAgain

\* C16: Publish comes last: when post-verification is enabled (not quick, or
\* a seed is used), .o4/changelist is written only after the post-verify
\* pipeline has ended well, so a call whose post-verify pipeline fails leaves
\* no .o4/changelist for the target changelist.
C16_PublishLast ==
    /\ ((seed \/ ~quick) /\ "write" \in did) => "verify" \in did
    /\ (s_exit = "exit" /\ spc = "verify") => changelist_file # s_changelist

\* the positions of o4_sync between the removal of .o4/changelist and its
\* writing
InFlight == {"opened", "open_pipeline", "sync1", "flush", "sync2", "publish"}

\* C17: Marker absent while a sync is in flight: past the early exit an
\* existing .o4/changelist is removed before any pipeline runs and written
\* again only after both sync pipelines have ended well; after an abort in
\* the opened-files pipeline or in a sync pipeline .o4/changelist does not
\* exist, so the next call finds no previous changelist (a full pass).
C17_MarkerAbsent ==
    [][/\ spc' \in InFlight => changelist_file' = Absent
       /\ "write" \in did' => {"sync1", "sync2"} \subseteq did'
       /\ (s_exit = "exit" /\ spc \in {"open_pipeline", "sync1", "sync2"}
              /\ syncs' = syncs + 1)
            => (previous_cl' = 0 /\ FstatChanged' = 0)]_vars

\* C17: a call that has removed .o4/changelist has aborted in the second sync
\* pipeline
C17_Witness ==
    /\ s_exit = "exit"
    /\ spc = "sync2"
    /\ "remove" \in did
    /\ changelist_file = Absent
(***************************************************************************)
(* Parts L and T: the claims.                                              *)
(***************************************************************************)
\* a line '#o4pass-<kind>#...'
KindLine(text, kind) == StartsWith(text, PASS_DASH \o kind \o <<"#">>)

\* a line that is neither blank, a comment nor a line '#o4pass-...'
RecordLine(text) ==
    /\ ~StartsWith(text, PASS_DASH)
    /\ Rstrip(text) # <<>>
    /\ Rstrip(text)[1] # "#"

\* C18: Soft failure through the IncompleteMarker: when the input of o4 fail
\* holds only warning passthrough lines, o4 fail sets .o4/sync-incomplete and
\* exits with 0, and a sync that completes while .o4/sync-incomplete is
\* present does not write .o4/changelist.
C18_SoftFailure ==
    /\ (lpc = "exited" /\ input # <<>>
          /\ \A i \in 1..Len(input) : KindLine(input[i], <<"warn">>))
        => (incomplete_file /\ ec = <<0>>)
    /\ incomplete_file => "write" \notin did

\* C19: o4 fail exit status: o4_fail exits with 1 iff the input holds at least
\* one fstat record or at least one '#o4pass-err#' line; an input that is
\* empty or holds only info and warn lines, comments and blank lines gives 0.
C19_ExitStatus ==
    lpc = "exited" =>
        /\ ec \in {<<0>>, <<1>>}
        /\ ec = <<1>> <=> \E i \in 1..Len(input) :
                              KindLine(input[i], ERR) \/ RecordLine(input[i])

\* an input line starting with '#o4pass'
PassLine(text) == StartsWith(text, <<"#", "o4pass">>)

\* the lines of the input that the stage has taken
Consumed == SubSeq(input, 1, Len(input) - Len(stdin))

\* the lines of stdout that the passthrough test has handed on
FromPass(e) == e[2] = "pass"
Passed == LET out == SelectSeq(stdout, FromPass)
          IN  [i \in 1..Len(out) |-> out[i][1]]

\* C20 as stated: Passthrough preservation: when a stage has ended, every
\* input line starting with '#o4pass' is in its stdout, as it was and once,
\* whatever the predicates, the have list, p4 and the seed do.
C20_AllPassed == tpc = "exited" => Passed = SelectSeq(input, PassLine)

\* C20: Passthrough preservation: every input line starting with '#o4pass'
\* that comes before the place where the stage aborts is in the stage's
\* stdout, as it was and once, and none is taken for a record; a stage that
\* exits with 0 has handed on every such line of its input, and o4_pyforce
\* has done so before it first calls p4.
C20_Passthrough ==
    /\ Passed = SelectSeq(Consumed, PassLine)
    /\ \A i \in 1..Len(stdout) : stdout[i][2] = "record" => ~PassLine(stdout[i][1])
    /\ (tpc = "exited" /\ ec = <<0>>) => stdin = <<>>
    /\ (stage = "pyforce" /\ tpc \in {"p4", "stream"}) => stdin = <<>>

\* C20: o4_filter has ended well; it has handed on the passthrough line and
\* dropped the record after it
C20_Witness ==
    /\ stage = "filter"
    /\ tpc = "exited"
    /\ ec = <<0>>
    /\ Len(input) = 2
    /\ PassLine(input[1])
    /\ RecordLine(input[2])
    /\ Len(stdout) = 1
    /\ stdout[1] = <<input[1], "pass">>

\* the predicates of funcs that are true of the row, each inverted or not
TrueOf(row) == {i \in 1..Len(funcs) : Inverted(funcs[i], row)}

\* C21: Filter modes: for every non-empty list of (possibly inverted)
\* predicates and every record, keep forwards the record iff all predicates
\* are true, keep-any iff at least one is and drop iff none is; in particular
\* drop --not-deletes --existence forwards exactly the delete records whose
\* file is still on disk, and an empty list of predicates is an error.
C21_FilterModes ==
    (stage = "filter" /\ tpc = "exited" /\ Len(input) = 1) =>
        LET row == fstat_split(input[1])
            forwarded == stdout = <<<<fstat_join(row) \o <<NL>>, "record">>>>
        IN  /\ funcs = <<>> => (ec = <<1>> /\ stdout = <<>>)
            /\ ec = <<0>> =>
                 /\ stdout = <<>> \/ forwarded
                 /\ filtertype = "keep" => (forwarded <=> TrueOf(row) = 1..Len(funcs))
                 /\ filtertype = "keep-any" => (forwarded <=> TrueOf(row) # {})
                 /\ filtertype = "drop" => (forwarded <=> TrueOf(row) = {})
                 /\ (filtertype = "drop"
                       /\ funcs = <<<<"deletes", TRUE>>, <<"existence", FALSE>>>>)
                    => (forwarded <=> (row[5] = <<>> /\ fs.kind[row[2]] = "file"))

\* C21: drop --not-deletes --existence has forwarded the delete record of a
\* file that is on disk
C21_Witness ==
    /\ stage = "filter"
    /\ tpc = "exited"
    /\ ec = <<0>>
    /\ filtertype = "drop"
    /\ funcs = <<<<"deletes", TRUE>>, <<"existence", FALSE>>>>
    /\ fs.kind[<<"b">>] = "file"
    /\ stdout = <<<<input[1], "record">>>>

\* the stage has written the record line, as a record
Emitted(text) ==
    \E i \in 1..Len(stdout) : stdout[i] = <<Rstrip(text) \o <<NL>>, "record">>

\* the have list has no entry '<path>#<rev> -' for the record of the line, and
\* the record has a checksum
Wanted(text) ==
    LET f == fstat_split(text)
        list == IF have_list = None THEN {} ELSE have_list[1]
    IN  f[5] # <<>> /\ <<f[2], f[3]>> \notin list

\* C22: Have-list filter: for every input and every have list (an empty one
\* too) o4_drop_have emits a record iff its checksum is not empty and no
\* have-list entry starts with '<escaped-path>#<rev> -'; delete records are
\* never emitted, wherever they are in the input.
C22_HaveFilter ==
    (stage = "drop_have" /\ tpc = "exited" /\ ec = <<0>>) =>
        \A i \in 1..Len(input) :
            (RecordLine(input[i]) /\ ~PassLine(input[i]) /\ ~Malformed(input[i]))
                => (Emitted(input[i]) <=> Wanted(input[i]))

\* the records that are on stdout
RecordsOut(out) == SelectSeq(out, LAMBDA e : e[2] = "record")

\* the lines of the records of a list
JoinAll(recs) == [i \in 1..Len(recs) |-> <<fstat_join(recs[i]) \o <<"\n">>, "record">>]

\* C23: o4_pyforce writes no record while the result stream of a p4 call is
\* being read: a step that leaves the stream open leaves the records of stdout
\* as they are, and the step that ends the stream (EOF, error or timeout)
\* writes the records that the replies of this call matched.
C23_NoPrematureEmission ==
    [][stage = "pyforce" /\ tpc = "stream" =>
          IF tpc' = "stream"
          THEN RecordsOut(stdout') = RecordsOut(stdout)
          ELSE RecordsOut(stdout') =
                   RecordsOut(stdout) \o (IF quiet THEN <<>> ELSE JoinAll(queued_prints))]_vars

\* C23 happens: a reply matched a record and the record is on stdout after
\* the stream has ended
C23_Witness ==
    /\ stage = "pyforce"
    /\ tpc # "stream"
    /\ queued_prints # <<>>
    /\ RecordsOut(stdout) # <<>>


\* how often x is in a sequence
Occ(seq, x) == Cardinality({i \in 1..Len(seq) : seq[i] = x})

\* the line of stdout that the record of an input line makes
OutLine(text) == <<fstat_join(fstat_split(Rstrip(text))) \o <<NL>>, "record">>

\* how often the record f is still to be matched, waits for the end of the
\* p4 call, and is on stdout
Owed(f, at, todo, waiting, out) ==
    Occ(todo, f)
        + (IF at = "stream" THEN Occ(waiting, f) ELSE 0)
        + Occ(out, <<fstat_join(f) \o <<NL>>, "record">>)

\* the record lines of the input
RecordsIn == {i \in 1..Len(input) : RecordLine(input[i]) /\ ~Malformed(input[i])}

\* a p4 call ends and none of the records it was asked about was matched
NothingRecognised ==
    /\ stage = "pyforce"
    /\ tpc = "stream"
    /\ tpc' # "stream"
    /\ Len(fstats') = n_asked

\* a p4 call ends and is not tried again: it ended neither by a timeout nor
\* by a P4Error that holds 'clobber writable file' errors only
NotRetried == retries' = retries /\ clobbers' = clobbers

\* a step that writes a record or ends the stage
WritesOrReturns == RecordsOut(stdout') # RecordsOut(stdout) \/ tpc' = "exited"

\* a step that moves a record: it is taken from the list, put aside, written,
\* or the p4 call starts or ends
MovesRecords ==
    \/ fstats' # fstats
    \/ queued_prints' # queued_prints
    \/ tpc' # tpc
    \/ RecordsOut(stdout') # RecordsOut(stdout)

\* a normal return has matched every record it took, and no record is on
\* stdout more often than the input has lines that make it
Accounted(at, code, todo, out) ==
    (stage = "pyforce" /\ WritesOrReturns) =>
        /\ (at = "exited" /\ code = <<0>>) => todo = <<>>
        /\ \A k \in 1..Len(out) :
               out[k][2] = "record" =>
                   Occ(out, out[k])
                       <= Cardinality({i \in RecordsIn : OutLine(input[i]) = out[k]})

\* the records that are to be matched or wait for the end of the p4 call
Held(todo, waiting) ==
    {todo[i] : i \in 1..Len(todo)} \cup {waiting[i] : i \in 1..Len(waiting)}

\* unless quiet, a record that o4_pyforce took is to be matched, waits for
\* the end of the p4 call or is on stdout, once
Conserved ==
    (stage = "pyforce" /\ tpc \in {"p4", "stream"} /\ ~quiet /\ MovesRecords) =>
        \A f \in Held(fstats, queued_prints) \cup Held(fstats', queued_prints') :
            Owed(f, tpc', fstats', queued_prints', stdout')
                = Owed(f, tpc, fstats, queued_prints, stdout)

\* C24 as stated: a normal return has matched every record it took, every
\* record is on stdout once unless quiet, no record is on stdout more often
\* than in the input, and every p4 call that matched nothing aborts the stage.
C24_EveryIdleCallAborts ==
    [][/\ Accounted(tpc', ec', fstats', stdout')
       /\ Conserved
       /\ NothingRecognised => (tpc' = "exited" /\ ec' = <<1>>)]_vars

\* C24, amended: the same, and a p4 call that ends neither by a timeout nor
\* by clobber errors only and matched nothing aborts the stage.
C24_Accounting ==
    [][/\ Accounted(tpc', ec', fstats', stdout')
       /\ Conserved
       /\ (NothingRecognised /\ NotRetried) => (tpc' = "exited" /\ ec' = <<1>>)]_vars

\* C24 happens: o4_pyforce returns normally after a timeout and a second p4
\* call, and the records are on stdout
C24_Witness ==
    /\ stage = "pyforce"
    /\ tpc = "exited"
    /\ ec = <<0>>
    /\ retries < 3
    /\ Len(RecordsOut(stdout)) = MaxLines


\* a result that is a timeout, an error that is none, a result that is no error
TimeoutRecord(r) == r.code = "error" /\ r.data \in TimedOut
Benign(r) == r.code = "error" /\ r.data \in (UpToDate \cup TooEarly)
NonError(r) == r.code # "error" \/ Benign(r)

\* the results Pyforce has returned are the non-error results of p4, in order,
\* the benign errors as stat or skip
ReturnedInOrder ==
    LET good == SelectSeq(p4_in, NonError)
    IN  /\ Len(p4_ret) = Len(good)
        /\ \A i \in 1..Len(good) :
               /\ <<p4_ret[i].data, p4_ret[i].path, p4_ret[i].flag>>
                      = <<good[i].data, good[i].path, good[i].flag>>
               /\ p4_ret[i].code # "error"
               /\ good[i].data \in UpToDate /\ good[i].code = "error" => p4_ret[i].code = "stat"
               /\ good[i].data \in TooEarly /\ good[i].code = "error" => p4_ret[i].code = "skip"

\* the errors that a P4Error at the end of the stream has to carry
Deferred ==
    LET bad == SelectSeq(p4_in, LAMBDA r : ~NonError(r))
    IN  IF p4_end[2] = "" THEN bad ELSE Append(bad, StderrError)

\* C25 as stated: without a timeout record Pyforce returns every non-error
\* result in order, raises nothing while the stream is read, and at the end
\* raises P4Error with all errors iff there was an error or stderr is not empty.
C25_RaisesIffError ==
    (stage = "pyforce" /\ \A i \in 1..Len(p4_in) : ~TimeoutRecord(p4_in[i])) =>
        /\ ReturnedInOrder
        /\ tpc = "stream" => p4_end = <<>>
        /\ p4_end # <<>> =>
               /\ p4_end[1] = "P4Error" <=> Deferred # <<>>
               /\ p4_end[1] = "P4Error" => p4_errors = Deferred

\* C25, amended: the same when stderr does not hold 'timed out'.
C25_DeferredErrors ==
    (stage = "pyforce" /\ \A i \in 1..Len(p4_in) : ~TimeoutRecord(p4_in[i])) =>
        /\ ReturnedInOrder
        /\ tpc = "stream" => p4_end = <<>>
        /\ (p4_end # <<>> /\ p4_end[2] # "timed out") =>
               /\ p4_end[1] = "P4Error" <=> Deferred # <<>>
               /\ p4_end[1] = "P4Error" => p4_errors = Deferred

\* C25 happens: a benign error was returned as stat or skip, an error was
\* kept, and P4Error is raised at the end of the stream
C25_Witness ==
    /\ stage = "pyforce"
    /\ p4_end # <<>>
    /\ p4_end[1] = "P4Error"
    /\ Len(p4_in) = 2
    /\ Benign(p4_in[1])
    /\ p4_ret # <<>>
    /\ p4_errors # <<>>


\* the info results that are known to be benign
BenignInfo(r) == r.code = "info" /\ r.data \in (DiffChunks \cup CantMove)

\* C26: when p4 sends an info result with a benign body, Pyforce returns it
\* with code mute and writes an #o4pass-err# line to stdout, and o4_pyforce
\* does not queue the record it matches.
C26_BenignInfoMuted ==
    [][(stage = "pyforce" /\ tpc = "stream" /\ Len(p4_in') = Len(p4_in) + 1
            /\ BenignInfo(p4_in'[Len(p4_in')])) =>
           /\ Len(p4_ret') = Len(p4_ret) + 1
           /\ p4_ret'[Len(p4_ret')].code = "mute"
           /\ Len(stdout') > Len(stdout)
           /\ StartsWith(stdout'[Len(stdout) + 1][1], PASS_DASH \o ERR)
           /\ queued_prints' = queued_prints]_vars


\* C27: a record that is joined and split again is the record it was, field
\* for field, and its line has four commas, none of them in the path.
C27_RoundTrip ==
    r_res # None =>
        /\ r_res = r_f
        /\ Occ(r_line, ",") = 4


\* no call returned True while an earlier one, not older than TIMEOUT, held
\* the package lock
Exclusive(h) == \A i, j \in 1..Len(h) : i < j => h[j][2] - h[i][2] > TIMEOUT

\* caller c has the lock file locked and finds a fresh timestamp in it
FindsFresh(c) ==
    /\ kpc[c] = "locked"
    /\ kop[c] = "lock"
    /\ packagelock # 0
    /\ k_now[c] - packagelock <= TIMEOUT

\* C28: between two unlock_package calls at most one lock_package returns
\* True, unless the timestamp of the holder is more than 90 minutes old; a
\* caller that finds a fresh timestamp gets False and leaves the file alone.
C28_MutualExclusion ==
    [][/\ Exclusive(holders')
       /\ \A c \in Callers :
              (FindsFresh(c) /\ kpc'[c] = "unlocked") =>
                  (k_ret'[c] = "False" /\ packagelock' = packagelock)]_vars


\* the paths changed after the target and up to previous_cl
Touched == {q \in Paths : HeadChange(q, o_args.changelist + 1, o_args.previous_cl) # 0}

\* the paths that have a record at or below the target
AtTarget == {q \in Paths : HeadChange(q, 1, o_args.changelist) # 0}

\* C29: going back, without force and without drop and keep lists, o4 fstat
\* prints exactly one delete record at the target changelist for every path
\* changed in between that has no record at the target, and the record at the
\* target of every other path changed in between; nothing of a path that was
\* not changed in between.
C29_ReverseRecords ==
    (/\ o_args # None
     /\ o_args.previous_cl > o_args.changelist
     /\ ~o_args.force
     /\ o_args.drop = None
     /\ o_args.keep = None) =>
        /\ PathsOf(printed) = Touched
        /\ Len(printed) = Cardinality(Touched)
        /\ \A i \in 1..Len(printed) :
               printed[i] = IF printed[i][2] \in AtTarget
                            THEN <<HeadChange(printed[i][2], 1, o_args.changelist),
                                   printed[i][2], "record">>
                            ELSE <<o_args.changelist, printed[i][2], "delete">>

\* C30: o4 fstat prints no record of a path of its drop list, whether the
\* path is in the keep list too or not, going forward or back (o4_sync gives
\* the opened files as --drop to every fstat of the two sync passes and of the
\* post-verify pass).
C30_DroppedStayOut ==
    o_args # None => PathsOf(printed) \cap SetOf(o_args.drop) = {}


(***************************************************************************)
(* Part C: the claims.                                                     *)
(***************************************************************************)
\* the place of a file among the cache files, by ascending changelist
Position(cl, S) == Cardinality({d \in S : d <= cl})

\* the files at the second, fourth, ... place that are not the marker's
Candidates(S) == {cl \in S : Position(cl, S) % 2 = 0 /\ cl # changelist_file}

\* what the claim says of every call, Gone being the files it has to remove
EveryOtherBut(Gone) ==
    /\ c_files' \subseteq c_files
    /\ c_files \ c_files' = Gone
    /\ \A cl \in c_files : Position(cl, c_files) = 1 => cl \in c_files'
    /\ changelist_file \in c_files => changelist_file \in c_files'
    /\ c_ret' = <<Cardinality(c_files \ c_files')>>

Unsafe(S) == {a \in S : a[2] # changelist_file}
OldOnes(S) == {a \in Unsafe(S) : a[1] > DAY}

\* C32: when every os.remove succeeds, prune_archive_cache removes the
\* archives older than 24 hours; if no archive is that old it removes one
\* archive and keeps the other recent ones; the archive of the changelist in
\* .o4/changelist is never removed.
C32_OldOrOne ==
    [][(a_ret' # a_ret /\ a_fail = {}) =>
          /\ a_files' \subseteq a_files
          /\ \A a \in a_files : a[2] = changelist_file => a \in a_files'
          /\ OldOnes(a_files) # {} => a_files \ a_files' = OldOnes(a_files)
          /\ OldOnes(a_files) = {} =>
                 Cardinality(a_files \ a_files')
                     = (IF Unsafe(a_files) = {} THEN 0 ELSE 1)]_vars


RangeSet(range) == IF range[1] = 0 THEN {} ELSE range[2]..range[1]

\* C34: after the first request to the fstat server, whatever its outcome
\* (full answer, error, redirect to any changelist), the range left to
\* Perforce and the range of the server's second request are disjoint, the
\* server's below Perforce's, together with what the server has supplied
\* they are exactly cache_cl + 1 .. to_changelist, and every range handed to
\* fstat_from_perforce has lower <= upper.
C34_RangePartition ==
    /\ fpc = "perforce" =>
           LET supplied == IF missing_range[1] = 0
                           THEN (cache_cl + 1)..to_changelist ELSE {}
               p4 == RangeSet(missing_range)
               server == RangeSet(o4server_range)
           IN  /\ p4 \cap server = {}
               /\ \A c \in server, d \in p4 : c < d
               /\ supplied \cup p4 \cup server = (cache_cl + 1)..to_changelist
    /\ (fpc \in {"perforce", "retry"} /\ missing_range[1] # 0) =>
           missing_range[2] <= missing_range[1]


(***************************************************************************)
(* Parts F and T: the claim about the timeouts of p4.                      *)
(***************************************************************************)
\* a call fstat_iter(depot_path, to_changelist), with from_changelist left at
\* its default of 0 (o4_fstat.py 265)
NextLastCall ==
    \/ \E to \in CLs : Start(to, 0)
    \/ DirectLine
    \/ DirectReturn
    \/ Server1OK
    \/ \E e_cl \in CLs : Server1Redirect(e_cl)
    \/ Server1Error
    \/ Server1Line
    \/ Server1End
    \/ PerforceBegin
    \/ P4Attempt
    \/ P4GiveUp
    \/ \E f \in p4_left : P4Record(f)
    \/ P4Break
    \/ P4Timeout
    \/ P4TooManyRows
    \/ P4RequestTooLarge
    \/ P4NoSuchFile
    \/ PerforceRows
    \/ Server2OK
    \/ Server2Line
    \/ Server2End
    \/ LocalBegin
    \/ CacheLine
    \/ CacheEnd
    \/ Close
    \/ Rename
    \/ Done
    \/ Raise
    \/ Abandon

\* a process that calls fstat_iter, or a process that is the stage o4_pyforce
\* (without -q)
NextTimeouts ==
    \/ stage = "none" /\ NextLastCall
    \/ stage = "pyforce" /\ NextPyforce
\* the last call of fstat_iter on a cache directory that an earlier call, of
\* changelist c, has left: the file of c holds every path of the depot at c
InitLastCall ==
    /\ depot \in [CLs -> SUBSET Paths]
    /\ fstat_server \in BOOLEAN
    /\ tracing = FALSE
    /\ cache_dir \in {[c \in {} |-> <<>>]} \cup
                     {[c \in {d} |-> ServerFile(d)] : d \in {e \in CLs : depot[e] # {}}}
    /\ runs = MaxRuns - 1
    /\ fpc = "idle"
    /\ exc = "none"
    /\ NoCall
InitOneCall == IdleG /\ InitLastCall /\ IdleS /\ IdleQ /\ IdleX
SpecLastCall == InitOneCall /\ [][NextLastCall]_vars
InitTimeouts ==
    \/ IdleG /\ InitLastCall /\ IdleS /\ IdleQ /\ IdleX
    \/ InitPyforce /\ ~quiet
SpecTimeouts == InitTimeouts /\ [][NextTimeouts]_vars

\* C35: in one call of fstat_iter and in one run of o4_pyforce at most three
\* p4 invocations end in P4TimeoutError.  The count is cumulative: the attempts
\* left are always three less the timeouts so far, whatever else happened in
\* between (records delivered, a 'Too many rows scanned' retry, a clobber
\* retry), and after the third timeout no p4 invocation follows: fstat_iter
\* leaves through sys.exit (or an exception), the stage exits with 1.
C35_ThreeTimeouts ==
    [][/\ timeouts' <= RETRIES
       /\ fpc' = "retry" => retry' = RETRIES - timeouts'
       /\ fpc' = "p4" => retry' = RETRIES - timeouts' - 1
       /\ timeouts' = RETRIES => (fpc' = "retry" /\ retry' = 0)
       /\ (fpc = "retry" /\ retry = 0) => (fpc' = "idle" /\ exc' \in {"exit", "exception"})
       /\ p4_timeouts' <= RETRIES
       /\ tpc' \in {"p4", "stream"} => retries' = RETRIES - p4_timeouts'
       /\ p4_timeouts' = RETRIES => (tpc' = "exited" /\ ec' = <<1>>)]_vars

\* the third timeout of a call that was also told 'Too many rows scanned'
C35_Witness == timeouts = RETRIES /\ rowscans > 0


(***************************************************************************)
(* Part F: the claim about the end of the Perforce phase.                  *)
(***************************************************************************)
\* the calls of fstat_iter by a process that keeps running: a step that can
\* be taken is taken
SpecFstatLive == InitFstat /\ [][NextFstat]_vars /\ WF_vars(NextFstat)

\* C36: whatever Perforce answers, the retry loop of lines 350-392 is left
\* after finitely many attempts: the call goes on to the rows it has, raises
\* or exits.
C36_LoopLeft == (fpc = "retry") ~> (fpc \notin {"retry", "p4"})


(***************************************************************************)
(* Part T: the claim about the end of the loop of o4_pyforce.              *)
(***************************************************************************)
\* C38: every iteration of the loop of o4_pyforce (lines 603-731) that goes
\* back to the head of the loop has removed a record that was left or has
\* taken one of the retries; so the loop runs p4 a bounded number of times.
C38_IterationProgress ==
    [][(stage = "pyforce" /\ tpc = "stream" /\ tpc' = "p4") =>
           (Len(fstats') < n_asked \/ retries' < retries)]_vars


(***************************************************************************)
(* Part F: the claim about the paths of the lines yielded.                 *)
(***************************************************************************)
\* the paths of the lines this call has yielded so far
YieldedPaths == {y[2] : y \in yielded}

\* C39: a call of fstat_iter yields no path twice: the record of Perforce or
\* the line of a file that a step yields has a path that no earlier step of
\* the call has yielded, whatever the sources and the retries were.
C39_NoDuplicatePath ==
    [][/\ (fpc = "p4" /\ at_yield') =>
              \A f \in p4_left \ p4_left' : f[2] \notin YieldedPaths
       /\ (fpc \in {"direct", "server1", "server2", "cache"} /\ lines # <<>>
              /\ lines' = Tail(lines) /\ at_yield') =>
              Head(lines)[2] \notin YieldedPaths]_vars


(***************************************************************************)
(* Part O: the claim about the generators of o4_fstat.                     *)
(***************************************************************************)
\* C40: when o4_fstat returns, every fstat_iter generator it made has been
\* run to its end: next() was called once more than the generator has lines
\* (so fstat_iter reaches the rename of its cache file), with and without
\* -q, going forward and back, with drop and keep lists, also when the keep
\* list is used up before the stream ends.
C40_Drained ==
    (o_args # None /\ o_end = "return") =>
        \A i \in 1..Len(o_iters) : o_iters[i].calls = o_iters[i].lines + 1

\* C40 happens: the only path of the keep list is printed from the first of
\* two lines, and the second line is read all the same
C40_Witness ==
    /\ o_args # None
    /\ o_end = "return"
    /\ ~o_args.quiet
    /\ o_args.previous_cl = 0
    /\ o_args.drop = None
    /\ o_args.keep # None
    /\ Len(o_iters) = 1
    /\ o_iters[1].lines = 2
    /\ o_iters[1].calls = 3
    /\ Len(printed) = 1
    /\ printed[1][2] = FstatIter(o_args.changelist, 0)[1][2]


(***************************************************************************)
(* Part G: the claim about the end of distribute.                          *)
(***************************************************************************)
\* a step of the sink thread
SinkStep == \E c \in Spawned, s \in Streams : SinkData(c, s) \/ SinkEOF(c, s)

\* C37: distribute returns once stdin is at its end and the children have
\* exited: while the main thread waits in sel_t.join() the sink thread has
\* left its loop or can take a step, so that the join completes.
C37_JoinCompletes == gpc = "join" => (sink_pc = "stopped" \/ ENABLED SinkStep)

==============================================================================
